---- MODULE Spec2Model ----
(***************************************************************************)
(* fab-events-sync, discord-bot worker: snapshot loader, diff engine,      *)
(* canonical store (SQLite), notification formatter and dispatcher, and    *)
(* the cron scheduler that drives them.                                    *)
(*                                                                         *)
(* Conventions.  A JavaScript value that may be missing is one of Absent   *)
(* (undefined / property not present), Null, or a string.  A piece of      *)
(* rendered text is a sequence of string tokens; concatenation of strings  *)
(* is concatenation of token sequences and the length of a text is the sum *)
(* of the lengths of its tokens.  A few tokens stand for long strings and  *)
(* carry their length in StrLen.     sha256 is taken to be injective: a    *)
(* digest is represented by the canonical value that was digested.         *)
(***************************************************************************)
EXTENDS Integers, Sequences, FiniteSets, TLC

VARIABLES
  events,        \* table events: key -> row | NoRow
  calendars,     \* table calendars: calendar_id -> row | NoRow
  guild_settings,\* table guild_settings: guild_id -> channel_id | NoRow
  subscriptions, \* table guild_calendar_subscriptions: set of <<guild, calendar>>
  notifications_log, \* table notifications_log: sequence of rows, in insertion order
  now,           \* wall clock, advanced by every cron tick
  cfg,           \* process environment of the worker (token, channel ids, dispatcher build)
  runs,          \* the invocations of runOnce: run id -> its locals and position
  lastCommit     \* history: the snapshot and the run id of the invocation whose
                 \* upsertEvents committed since the latest tick

vars == <<events, calendars, guild_settings, subscriptions, notifications_log,
          now, cfg, runs, lastCommit>>

(***************************************************************************)
(* Bounds of the model.                                                    *)
(***************************************************************************)
MaxTicks == 3
MaxInFlight == 2
MaxRecs == 2
LongTitleLen == 3000
HugeTitleLen == 3925

(***************************************************************************)
(* JavaScript values.                                                      *)
(***************************************************************************)
Absent == "<undefined>"
Null == "<null>"
\* A primary key with no row in a table.
NoRow == [norow |-> TRUE]

\* a ?? b
Coalesce(a, b) == IF a \in {Absent, Null} THEN b ELSE a

\* truthiness of a value that is undefined, null or a string
Truthy(a) == a \notin {Absent, Null, ""}

Titles == {"Regional", "LongTitle", "HugeTitle"}

\* Length of a token.  LongTitle and HugeTitle stand for titles of that many
\* characters.
StrLen(s) ==
  IF s = "LongTitle" THEN LongTitleLen
  ELSE IF s = "HugeTitle" THEN HugeTitleLen
  ELSE Len(s)

RECURSIVE TextLen(_)
TextLen(t) == IF t = <<>> THEN 0 ELSE StrLen(Head(t)) + TextLen(Tail(t))

(***************************************************************************)
(* types.ts                                                                *)
(***************************************************************************)
CalendarIds == {"A", "B"}
EventIds == {"1"}
Keys == CalendarIds \X EventIds

NotificationType == {"new_event", "event_changed"}

KeyOf(e) == <<e.calendar_id, e.event_id>>

(***************************************************************************)
(* hash.ts                                                                 *)
(***************************************************************************)
\* The object handed to JSON.stringify: five fields in a fixed order, the
\* optional ones with undefined replaced by null.
Canonical(e) ==
  <<e.title, e.starts_at, Coalesce(e.ends_at, Null), Coalesce(e.url, Null),
    Coalesce(e.location, Null)>>

\* A faulty hashEvent that digests the optional fields as they come, without
\* ?? null.
hashEventNoCoalesce(e) == <<e.title, e.starts_at, e.ends_at, e.url, e.location>>

\* A faulty hashEvent that also digests updated_at.
hashEventWithUpdatedAt(e) == Canonical(e) \o <<Coalesce(e.updated_at, Null)>>

hashEvent(e) == Canonical(e)

\* A JSON object as JSON.parse builds it: its properties in the order of the
\* text, a sequence of <<name, value>>.  PropertyOrders are two orders the
\* text of a record can have, ObjectOf(e, order) is the object of record e
\* written in that order (JSON has no undefined: such properties are left
\* out, and is_global is never in the text: the loader sets it), Get is the
\* property access o.name, and AsEventRecord is the object seen through the
\* type EventRecord.
PropertyOrders ==
  {<<"event_id", "calendar_id", "title", "starts_at", "ends_at", "url",
     "updated_at", "location", "calendar_name">>,
   <<"calendar_name", "location", "updated_at", "url", "ends_at",
     "starts_at", "title", "calendar_id", "event_id">>}

ObjectOf(e, order) ==
  LET props == [i \in 1..Len(order) |-> <<order[i], e[order[i]]>>]
  IN SelectSeq(props, LAMBDA pr : pr[2] # Absent)

Get(o, name) ==
  IF \E i \in 1..Len(o) : o[i][1] = name
    THEN o[CHOOSE i \in 1..Len(o) : o[i][1] = name][2]
    ELSE Absent

AsEventRecord(o) ==
  [calendar_id |-> Get(o, "calendar_id"), event_id |-> Get(o, "event_id"),
   title |-> Get(o, "title"), starts_at |-> Get(o, "starts_at"),
   ends_at |-> Get(o, "ends_at"), url |-> Get(o, "url"),
   location |-> Get(o, "location"), updated_at |-> Get(o, "updated_at"),
   is_global |-> Get(o, "is_global"), calendar_name |-> Get(o, "calendar_name")]

(***************************************************************************)
(* ingest.ts: the snapshot loader                                          *)
(***************************************************************************)
\* File names of the data directory, with what the string tests of the loader
\* answer for each of them.
FileNames == {"dfw_events.json", "global_events.json", ".json", "notes.txt"}

\* f.toLowerCase().endsWith('.json')
EndsWithJson(f) == f \in {"dfw_events.json", "global_events.json", ".json"}

\* path.basename(file).toLowerCase().includes('global')
IncludesGlobal(f) == f \in {"global_events.json"}

\* stem.toLowerCase().includes('dfw')
IncludesDfw(f) == f \in {"dfw_events.json"}

\* words of the stem, each with its first letter in upper case, joined by
\* spaces (the stem of ".json" is empty)
TitleCased(f) ==
  CASE f = "dfw_events.json" -> "Dfw Events"
    [] f = "global_events.json" -> "Global Events"
    [] f = ".json" -> ""
    [] OTHER -> "Notes.txt"

humanizeFromFilename(base) ==
  IF IncludesGlobal(base) THEN "Global Events"
  ELSE IF IncludesDfw(base) THEN "DFW Events"
  ELSE IF TitleCased(base) = "" THEN Null ELSE TitleCased(base)

\* The outcome of a call that may throw: ok with its value, or thrown.
Returned(v) == [ok |-> TRUE, value |-> v]
Thrown == [ok |-> FALSE, value |-> <<>>]

\* A faulty loadFile without the test of raw.trim(): JSON.parse throws on a
\* blank text.
loadFileParsingBlank(file) ==
  IF file.kind \in {"blank", "malformed"} THEN Thrown
  ELSE IF file.kind = "array" THEN
    LET isGlobal == IncludesGlobal(file.name)
        label == humanizeFromFilename(file.name)
    IN Returned([i \in 1..Len(file.recs) |->
          [file.recs[i] EXCEPT !.is_global = isGlobal,
                               !.calendar_name = IF label # Null THEN label ELSE @]])
  ELSE Returned(<<>>)

\* What loadFile appends to results for one file.  A file is [name, kind,
\* recs]: kind "blank" is empty or whitespace only, "malformed" is not JSON
\* (JSON.parse throws), "other" is JSON that is not an array, "array" is a
\* JSON array holding recs.
loadFile(file) ==
  IF file.kind = "blank" THEN Returned(<<>>)
  ELSE IF file.kind = "malformed" THEN Thrown
  ELSE IF file.kind = "array" THEN
    LET isGlobal == IncludesGlobal(file.name)
        label == humanizeFromFilename(file.name)
    IN Returned([i \in 1..Len(file.recs) |->
          [file.recs[i] EXCEPT !.is_global = isGlobal,
                               !.calendar_name = IF label # Null THEN label ELSE @]])
  ELSE Returned(<<>>)

\* for (const f of files) loadFile(path.join(p, f)): the first file that
\* throws ends the loop and the call.
RECURSIVE loadFiles(_)
loadFiles(files) ==
  IF files = <<>> THEN Returned(<<>>)
  ELSE LET first == loadFile(Head(files))
           rest == loadFiles(Tail(files))
       IN IF first.ok /\ rest.ok THEN Returned(first.value \o rest.value)
          ELSE Thrown

\* The files of a directory the loader keeps: those ending in .json.
JsonFiles(files) == SelectSeq(files, LAMBDA f : EndsWithJson(f.name))

\* A faulty loadEventsFromJson: a missing path taken as an empty snapshot.
loadEventsFromJsonMissingAsEmpty(snap) ==
  IF snap.kind = "missing" THEN Returned(<<>>)
  ELSE IF snap.kind = "dir" THEN loadFiles(JsonFiles(snap.files))
  ELSE loadFile(snap.files[1])

\* A snapshot is what DATA_JSON_PATH points at: [kind, files] with kind
\* "missing" (statSync throws), "dir" or "file".
loadEventsFromJson(snap) ==
  IF snap.kind = "missing" THEN Thrown
  ELSE IF snap.kind = "dir" THEN loadFiles(JsonFiles(snap.files))
  ELSE loadFile(snap.files[1])

(***************************************************************************)
(* ingest.ts: the canonical store                                          *)
(***************************************************************************)
\* The map names of upsertCalendarsFromEvents: calendar_id -> the
\* calendar_name of the first record of that calendar, or null.
FirstIndexOf(evs, c) ==
  CHOOSE i \in 1..Len(evs) :
    evs[i].calendar_id = c /\ \A j \in 1..(i - 1) : evs[j].calendar_id # c

CalendarNames(evs) ==
  [c \in {evs[i].calendar_id : i \in 1..Len(evs)} |->
     Coalesce(evs[FirstIndexOf(evs, c)].calendar_name, Null)]

\* A faulty CalendarRowAfter: ON CONFLICT ... SET name = excluded.name.
CalendarRowAfterOverwrite(old, name, t) ==
  [name |-> name, last_seen_at |-> t]

\* INSERT ... ON CONFLICT(calendar_id) DO UPDATE SET last_seen_at, name =
\* COALESCE(calendars.name, excluded.name)
CalendarRowAfter(old, name, t) ==
  IF old = NoRow THEN [name |-> name, last_seen_at |-> t]
  ELSE [name |-> IF old.name # Null THEN old.name ELSE name, last_seen_at |-> t]

upsertCalendarsFromEvents(table, evs, t) ==
  LET names == CalendarNames(evs)
  IN [c \in DOMAIN table |->
        IF c \in DOMAIN names THEN CalendarRowAfter(table[c], names[c], t)
        ELSE table[c]]

\* The row one stmt.run of upsertEvents writes.
EventRow(e) ==
  [title |-> e.title, starts_at |-> e.starts_at,
   ends_at |-> Coalesce(e.ends_at, Null), url |-> Coalesce(e.url, Null),
   location |-> Coalesce(e.location, Null),
   updated_at |-> Coalesce(e.updated_at, Null),
   content_hash |-> hashEvent(e)]

\* A faulty upsertEvents that replaces the table by the batch: the rows of
\* the keys the batch does not hold are deleted.
upsertEventsReplaceAll(table, evs) ==
  [k \in DOMAIN table |->
     LET idx == {i \in 1..Len(evs) : KeyOf(evs[i]) = k}
     IN IF idx = {} THEN NoRow
        ELSE EventRow(evs[CHOOSE i \in idx : \A j \in idx : j <= i])]

\* A faulty upsertEvents whose DO UPDATE SET leaves content_hash out: a row
\* that exists keeps its hash and takes the other fields of the record.
RECURSIVE upsertEventsKeepingHash(_, _)
upsertEventsKeepingHash(table, evs) ==
  IF evs = <<>> THEN table
  ELSE LET k == KeyOf(Head(evs))
           row == EventRow(Head(evs))
       IN upsertEventsKeepingHash(
            [table EXCEPT ![k] = IF table[k] = NoRow THEN row
                                 ELSE [row EXCEPT !.content_hash = table[k].content_hash]],
            Tail(evs))

RECURSIVE upsertEvents(_, _)
upsertEvents(table, evs) ==
  IF evs = <<>> THEN table
  ELSE upsertEvents([table EXCEPT ![KeyOf(Head(evs))] = EventRow(Head(evs))],
                    Tail(evs))

(***************************************************************************)
(* diff.ts                                                                 *)
(***************************************************************************)
NoPrevious == [none |-> TRUE]

\* A faulty DiffOf that fills previous from the incoming record instead of
\* the stored row.
DiffOfPayloadAsPrevious(table, e) ==
  LET prev == table[KeyOf(e)]
  IN IF prev = NoRow THEN
       <<[calendar_id |-> e.calendar_id, event_id |-> e.event_id,
          type |-> "new_event", payload |-> e, previous |-> NoPrevious]>>
     ELSE IF prev.content_hash # hashEvent(e) THEN
       <<[calendar_id |-> e.calendar_id, event_id |-> e.event_id,
          type |-> "event_changed", payload |-> e,
          previous |-> [calendar_id |-> e.calendar_id, event_id |-> e.event_id,
                        title |-> e.title, starts_at |-> e.starts_at,
                        ends_at |-> Coalesce(e.ends_at, Null),
                        url |-> Coalesce(e.url, Null),
                        location |-> Coalesce(e.location, Null)]]>>
     ELSE <<>>

\* The entries computeDiff pushes for one record e, given the events table.
DiffOf(table, e) ==
  LET prev == table[KeyOf(e)]
  IN IF prev = NoRow THEN
       <<[calendar_id |-> e.calendar_id, event_id |-> e.event_id,
          type |-> "new_event", payload |-> e, previous |-> NoPrevious]>>
     ELSE IF prev.content_hash # hashEvent(e) THEN
       <<[calendar_id |-> e.calendar_id, event_id |-> e.event_id,
          type |-> "event_changed", payload |-> e,
          previous |-> [calendar_id |-> e.calendar_id, event_id |-> e.event_id,
                        title |-> prev.title, starts_at |-> prev.starts_at,
                        ends_at |-> Coalesce(prev.ends_at, Null),
                        url |-> Coalesce(prev.url, Null),
                        location |-> Coalesce(prev.location, Null)]]>>
     ELSE <<>>

\* A faulty computeDiff: each record is compared with the table as the
\* records before it in the batch would have left it.
RECURSIVE computeDiffSequential(_, _)
computeDiffSequential(table, evs) ==
  IF evs = <<>> THEN <<>>
  ELSE DiffOf(table, Head(evs))
       \o computeDiffSequential([table EXCEPT ![KeyOf(Head(evs))] = EventRow(Head(evs))],
                                Tail(evs))

RECURSIVE computeDiff(_, _)
computeDiff(table, evs) ==
  IF evs = <<>> THEN <<>>
  ELSE DiffOf(table, Head(evs)) \o computeDiff(table, Tail(evs))

(***************************************************************************)
(* notify.ts, lines 46-150: the formatter and the channel-list dispatcher  *)
(***************************************************************************)
maxLen == 4000

NL == "\n"
header == <<"Updates from FAB Events:">>
SITE_URL == "https://fabevents.chaco.dev"
footer == <<NL, NL, "Browse and subscribe: ", SITE_URL>>

\* new Date(value).toLocaleString('en-US', { timeZone: 'America/Chicago' })
formatWhen(value) ==
  CASE value = "2025-09-01T10:00:00Z" -> "9/1/2025, 5:00:00 AM"
    [] value = "2025-09-02T10:00:00Z" -> "9/2/2025, 5:00:00 AM"
    [] value = "2025-09-01T18:00:00Z" -> "9/1/2025, 1:00:00 PM"
    [] OTHER -> "Invalid Date"

\* `- ${e.title}${cal} @ ${when}${link}`
formatEventLine(title, starts_at, url, calendarName) ==
  LET when == formatWhen(starts_at)
      link == IF Truthy(url) THEN <<" - ", url>> ELSE <<>>
      cal == IF Truthy(calendarName) THEN <<" [", calendarName, "]">> ELSE <<>>
  IN <<"- ", title>> \o cal \o <<" @ ", when>> \o link

\* array.join(sep) of an array of texts
RECURSIVE Join(_, _)
Join(texts, sep) ==
  IF texts = <<>> THEN <<>>
  ELSE IF Len(texts) = 1 THEN texts[1]
  ELSE texts[1] \o <<sep>> \o Join(Tail(texts), sep)

\* The array changes of formatChange, in the order it is pushed.
ChangeSegments(prev, next) ==
  (IF prev.starts_at # next.starts_at
     THEN << <<"date/time: ", formatWhen(prev.starts_at), " -> ",
               formatWhen(next.starts_at)>> >>
     ELSE <<>>)
  \o
  (IF Coalesce(prev.ends_at, "") # Coalesce(next.ends_at, "")
     THEN << <<"end: ",
               IF Truthy(prev.ends_at) THEN formatWhen(prev.ends_at) ELSE "none",
               " -> ",
               IF Truthy(next.ends_at) THEN formatWhen(next.ends_at) ELSE "none">> >>
     ELSE <<>>)
  \o
  (IF Coalesce(prev.location, "") # Coalesce(next.location, "")
     THEN << <<"location: ", Coalesce(prev.location, "none"), " -> ",
               Coalesce(next.location, "none")>> >>
     ELSE <<>>)
  \o
  (IF Coalesce(prev.url, "") # Coalesce(next.url, "")
     THEN << <<"url: ", Coalesce(prev.url, "none"), " -> ",
               Coalesce(next.url, "none")>> >>
     ELSE <<>>)
  \o
  (IF Coalesce(prev.title, "") # Coalesce(next.title, "")
     THEN << <<"title: ", prev.title, " -> ", next.title>> >>
     ELSE <<>>)

formatChange(prev, next) == Join(ChangeSegments(prev, next), " | ")

\* The line pushed for diff entry number i, as [text, entry]; entry records
\* which diff entry the line renders.
LineOf(d, i) ==
  IF d.type = "new_event" THEN
    << [text |-> formatEventLine(d.payload.title, d.payload.starts_at,
                                 Coalesce(d.payload.url, Absent),
                                 Coalesce(d.payload.calendar_name, Null)),
        entry |-> i] >>
  ELSE IF d.type = "event_changed" /\ d.previous # NoPrevious THEN
    << [text |-> <<"- UPDATE: ", d.payload.title>>
                 \o (IF Truthy(d.payload.calendar_name)
                       THEN <<" [", d.payload.calendar_name, "]">> ELSE <<>>)
                 \o <<" @ ", formatWhen(d.payload.starts_at), NL, "  -> ">>
                 \o formatChange(d.previous, d.payload),
        entry |-> i] >>
  ELSE <<>>

RECURSIVE LinesFrom(_, _)
LinesFrom(diffs, i) ==
  IF i > Len(diffs) THEN <<>> ELSE LineOf(diffs[i], i) \o LinesFrom(diffs, i + 1)

\* const lines: the rendered line of every diff entry, in order
RenderLines(diffs) == LinesFrom(diffs, 1)

\* A chunk under construction is [text, entries]: the string current and the
\* diff entries of the lines it holds.
FitsChunk(current, line) ==
  ~(TextLen(current.text \o <<NL>> \o line.text) + TextLen(footer) > maxLen)

\* A faulty Pack: the line that does not fit closes the current chunk and is
\* not carried into the next one.
RECURSIVE PackDroppingOverflow(_, _, _)
PackDroppingOverflow(lines, chunks, current) ==
  IF lines = <<>> THEN
    IF TextLen(current.text) > 0 THEN Append(chunks, current) ELSE chunks
  ELSE LET line == Head(lines)
       IN IF FitsChunk(current, line)
            THEN PackDroppingOverflow(Tail(lines), chunks,
                      [text |-> current.text \o <<NL>> \o line.text,
                       entries |-> Append(current.entries, line.entry)])
            ELSE PackDroppingOverflow(Tail(lines), Append(chunks, current),
                      [text |-> header, entries |-> <<>>])

\* The loop over lines: chunks pushed so far and the chunk under construction.
RECURSIVE Pack(_, _, _)
Pack(lines, chunks, current) ==
  IF lines = <<>> THEN
    IF TextLen(current.text) > 0 THEN Append(chunks, current) ELSE chunks
  ELSE LET line == Head(lines)
       IN IF FitsChunk(current, line)
            THEN Pack(Tail(lines), chunks,
                      [text |-> current.text \o <<NL>> \o line.text,
                       entries |-> Append(current.entries, line.entry)])
            ELSE Pack(Tail(lines), Append(chunks, current),
                      [text |-> header \o <<NL>> \o line.text,
                       entries |-> <<line.entry>>])

Chunks(lines) == Pack(lines, <<>>, [text |-> header, entries |-> <<>>])

(***************************************************************************)
(* notify.ts, lines 1-44: the subscription dispatcher with the ledger      *)
(***************************************************************************)
Guilds == {"g1", "g2"}

\* The channel a guild's set-channel command is issued in.
ChannelOf(g) == IF g = "g1" THEN "c1" ELSE "c2"

\* `<bullet> ${e.title}${cal} <em dash> ${when}${link}`: the bullet is
\* written "*" and the em dash "~" here, one character each as in the source.
formatEventLineSub(title, starts_at, url, calendarName) ==
  LET when == formatWhen(starts_at)
      link == IF Truthy(url) THEN <<" ~ ", url>> ELSE <<>>
      cal == IF Truthy(calendarName) THEN <<" [", calendarName, "]">> ELSE <<>>
  IN <<"* ", title>> \o cal \o <<" ~ ", when>> \o link

LogKey(row) == <<row.guild_id, row.calendar_id, row.event_id, row.type>>

\* A faulty logInsert: notifications_log declared without its primary key, so
\* that OR IGNORE ignores nothing.
logInsertNoKey(log, guild_id, calendar_id, event_id, type, t) ==
  Append(log, [guild_id |-> guild_id, calendar_id |-> calendar_id,
               event_id |-> event_id, type |-> type, posted_at |-> t])

\* INSERT OR IGNORE INTO notifications_log(guild_id, calendar_id, event_id,
\* type): posted_at defaults to datetime('now').
logInsert(log, guild_id, calendar_id, event_id, type, t) ==
  IF \E i \in 1..Len(log) : LogKey(log[i]) = <<guild_id, calendar_id, event_id, type>>
    THEN log
    ELSE Append(log, [guild_id |-> guild_id, calendar_id |-> calendar_id,
                      event_id |-> event_id, type |-> type, posted_at |-> t])

\* A faulty subCheck that finds a subscription for every guild and calendar.
subCheckAny(subs, guild_id, calendar_id) == TRUE

\* SELECT 1 FROM guild_calendar_subscriptions WHERE guild_id = ? AND
\* calendar_id = ?
subCheck(subs, guild_id, calendar_id) == <<guild_id, calendar_id>> \in subs

\* SELECT name FROM calendars WHERE calendar_id = ?, then nameRow?.name ?? null
calName(cals, calendar_id) ==
  IF cals[calendar_id] = NoRow THEN Null ELSE Coalesce(cals[calendar_id].name, Null)

\* The inner loop over diffs for one guild, from diff entry i on: the ledger
\* after it and the lines pushed.
RECURSIVE GuildPass(_, _, _, _, _, _, _)
GuildPass(guild_id, diffs, i, log, subs, cals, t) ==
  IF i > Len(diffs) THEN [log |-> log, lines |-> <<>>]
  ELSE LET d == diffs[i]
       IN IF ~subCheck(subs, guild_id, d.calendar_id)
            THEN GuildPass(guild_id, diffs, i + 1, log, subs, cals, t)
            ELSE LET rest == GuildPass(guild_id, diffs, i + 1,
                                       logInsert(log, guild_id, d.calendar_id,
                                                 d.event_id, d.type, t),
                                       subs, cals, t)
                 IN [log |-> rest.log,
                     lines |-> << [text |-> formatEventLineSub(
                                              d.payload.title, d.payload.starts_at,
                                              Coalesce(d.payload.url, Absent),
                                              calName(cals, d.calendar_id)),
                                   entry |-> i] >> \o rest.lines]

\* lines.join('\n'), with the diff entries the lines render
JoinLines(lines) ==
  [text |-> Join([i \in 1..Len(lines) |-> lines[i].text], NL),
   entries |-> [i \in 1..Len(lines) |-> lines[i].entry]]

\* The outer loop over guildRows from row number di on, up to the next
\* rest.post or the end of the loop: the ledger after it, the row reached
\* (Len + 1 at the end of the loop) and the content to post.
RECURSIVE GuildLoop(_, _, _, _, _, _, _)
GuildLoop(guildRows, di, diffs, log, subs, cals, t) ==
  IF di > Len(guildRows) THEN [log |-> log, di |-> di, content |-> JoinLines(<<>>)]
  ELSE LET pass == GuildPass(guildRows[di].guild_id, diffs, 1, log, subs, cals, t)
       IN IF pass.lines = <<>>
            THEN GuildLoop(guildRows, di + 1, diffs, pass.log, subs, cals, t)
            ELSE [log |-> pass.log, di |-> di, content |-> JoinLines(pass.lines)]

(***************************************************************************)
(* cmd.ts: the slash commands, run by the command process on the same      *)
(* database                                                                *)
(***************************************************************************)
\* SELECT calendar_id ... FROM calendars WHERE calendar_id = ? OR name = ?,
\* then row?.calendar_id ?? input: the calendar ids the lookup may resolve to
\* (SQLite returns any one of the matching rows).
ResolveCalendar(cals, input) ==
  LET matches == {c \in DOMAIN cals :
                    cals[c] # NoRow /\ (c = input \/ cals[c].name = input)}
  IN IF matches = {} THEN {input} ELSE matches

(***************************************************************************)
(* worker.ts: runOnce, one invocation per cron tick                        *)
(***************************************************************************)
\* The invocations of runOnce that exist at one time.
RunIds == 1..MaxInFlight

NoSnap == [kind |-> "none", files |-> <<>>]
NoMessage == [none |-> TRUE]
EmptyEvents == [k \in Keys |-> NoRow]
NoCommit == [snap |-> NoSnap, run |-> 0, done |-> FALSE]

\* The locals of one invocation of runOnce.  pc names the statement it
\* executes next: "calendars", "diff", "upsert", "dispatch" are the
\* statements of the try block after the load, "await" is a pending
\* rest.post, "done" and "failed" are the two ways it returns.
\* snap, rerun, undelivered, startEvents, sent, logged and failedAt are
\* history: the snapshot loaded, whether the run before it committed this very
\* snapshot and had returned, whether in addition no post of that run
\* succeeded, the events table as the load found it, the posts settled so
\* far, the number of ledger rows inserted and the statement that threw.
IdleRun ==
  [pc |-> "idle", snap |-> NoSnap, rerun |-> FALSE, batch |-> <<>>,
   startEvents |-> EmptyEvents, diffs |-> <<>>, dests |-> <<>>,
   chunks |-> <<>>, di |-> 0, ki |-> 0, pending |-> NoMessage,
   sent |-> <<>>, logged |-> 0, failedAt |-> "none", undelivered |-> FALSE]

\* Statements of runOnce that run without yielding to the event loop.
SyncPcs == {"calendars", "diff", "upsert", "dispatch"}

\* A faulty order of the statements: upsertEvents before computeDiff.
StepAfterUpsertFirst(step) ==
  CASE step = "load" -> "calendars"
    [] step = "calendars" -> "upsert"
    [] step = "upsert" -> "diff"
    [] step = "diff" -> "dispatch"

\* The order of the statements of the try block.
StepAfter(step) ==
  CASE step = "load" -> "calendars"
    [] step = "calendars" -> "diff"
    [] step = "diff" -> "upsert"
    [] step = "upsert" -> "dispatch"

\* runOnce returns normally / through its catch block: its locals are gone,
\* the history stays.
Returns(run) ==
  [IdleRun EXCEPT !.pc = "done", !.rerun = run.rerun, !.sent = run.sent,
                  !.logged = run.logged]
Catches(run) ==
  [IdleRun EXCEPT !.pc = "failed", !.rerun = run.rerun, !.sent = run.sent,
                  !.logged = run.logged, !.failedAt = run.pc,
                  !.snap = IF run.pc = "load" THEN run.snap ELSE NoSnap]

\* lastCommit when invocation r returns normally: done if r is the one that
\* committed since the latest tick.
CommitDone(r) ==
  IF lastCommit.run = r THEN [lastCommit EXCEPT !.done = TRUE] ELSE lastCommit

\* A faulty Tick: a tick delivered while an invocation is between two of its
\* statements, as if each of them were awaited.
TickBetweenStatements(snap) ==
  /\ now < (IF cfg.runOnce THEN 1 ELSE MaxTicks)
  /\ \E q \in RunIds : runs[q].pc \in {"idle", "done", "failed"}
  /\ now' = now + 1
  /\ LET r == CHOOSE q \in RunIds :
                /\ runs[q].pc \in {"idle", "done", "failed"}
                /\ \A p \in 1..(q - 1) : runs[p].pc \notin {"idle", "done", "failed"}
         res == loadEventsFromJson(snap)
         kept == [q \in RunIds |->
                    IF runs[q].pc \in {"done", "failed"} THEN IdleRun ELSE runs[q]]
     IN runs' = [kept EXCEPT ![r] =
                   IF res.ok
                     THEN [IdleRun EXCEPT !.pc = StepAfter("load"), !.snap = snap,
                                          !.rerun = (lastCommit.done /\ lastCommit.snap = snap),
                                          !.undelivered =
                                            (/\ lastCommit.done
                                             /\ lastCommit.snap = snap
                                             /\ \A i \in 1..Len(runs[lastCommit.run].sent) :
                                                  ~ runs[lastCommit.run].sent[i].ok),
                                          !.batch = res.value, !.startEvents = events]
                     ELSE Catches([IdleRun EXCEPT !.pc = "load", !.snap = snap])]
  /\ lastCommit' = NoCommit
  /\ UNCHANGED <<events, calendars, guild_settings, subscriptions,
                 notifications_log, cfg>>

\* A faulty Tick: runOnce without its try/catch, so that the rejection of an
\* invocation escapes, ends the process, and no later tick is delivered.
TickUnlessFailed(snap) ==
  /\ \A q \in RunIds : runs[q].pc # "failed"
  /\ now < (IF cfg.runOnce THEN 1 ELSE MaxTicks)
  /\ \A q \in RunIds : runs[q].pc \notin SyncPcs
  /\ \E q \in RunIds : runs[q].pc \in {"idle", "done", "failed"}
  /\ now' = now + 1
  /\ LET r == CHOOSE q \in RunIds :
                /\ runs[q].pc \in {"idle", "done", "failed"}
                /\ \A p \in 1..(q - 1) : runs[p].pc \notin {"idle", "done", "failed"}
         res == loadEventsFromJson(snap)
         kept == [q \in RunIds |->
                    IF runs[q].pc \in {"done", "failed"} THEN IdleRun ELSE runs[q]]
     IN runs' = [kept EXCEPT ![r] =
                   IF res.ok
                     THEN [IdleRun EXCEPT !.pc = StepAfter("load"), !.snap = snap,
                                          !.rerun = (lastCommit.done /\ lastCommit.snap = snap),
                                          !.undelivered =
                                            (/\ lastCommit.done
                                             /\ lastCommit.snap = snap
                                             /\ \A i \in 1..Len(runs[lastCommit.run].sent) :
                                                  ~ runs[lastCommit.run].sent[i].ok),
                                          !.batch = res.value, !.startEvents = events]
                     ELSE Catches([IdleRun EXCEPT !.pc = "load", !.snap = snap])]
  /\ lastCommit' = NoCommit
  /\ UNCHANGED <<events, calendars, guild_settings, subscriptions,
                 notifications_log, cfg>>

\* cron fires (or, with RUN_ONCE=1, the process starts): runOnce is called
\* and runs loadEventsFromJson on the snapshot found at DATA_JSON_PATH.  Node runs one callback at a time, so no tick is
\* delivered while an invocation is between two awaits.
Tick(snap) ==
  /\ now < (IF cfg.runOnce THEN 1 ELSE MaxTicks)
  /\ \A q \in RunIds : runs[q].pc \notin SyncPcs
  /\ \E q \in RunIds : runs[q].pc \in {"idle", "done", "failed"}
  /\ now' = now + 1
  /\ LET r == CHOOSE q \in RunIds :
                /\ runs[q].pc \in {"idle", "done", "failed"}
                /\ \A p \in 1..(q - 1) : runs[p].pc \notin {"idle", "done", "failed"}
         res == loadEventsFromJson(snap)
         kept == [q \in RunIds |->
                    IF runs[q].pc \in {"done", "failed"} THEN IdleRun ELSE runs[q]]
     IN runs' = [kept EXCEPT ![r] =
                   IF res.ok
                     THEN [IdleRun EXCEPT !.pc = StepAfter("load"), !.snap = snap,
                                          !.rerun = (lastCommit.done /\ lastCommit.snap = snap),
                                          !.undelivered =
                                            (/\ lastCommit.done
                                             /\ lastCommit.snap = snap
                                             /\ \A i \in 1..Len(runs[lastCommit.run].sent) :
                                                  ~ runs[lastCommit.run].sent[i].ok),
                                          !.batch = res.value, !.startEvents = events]
                     ELSE Catches([IdleRun EXCEPT !.pc = "load", !.snap = snap])]
  /\ lastCommit' = NoCommit
  /\ UNCHANGED <<events, calendars, guild_settings, subscriptions,
                 notifications_log, cfg>>

\* A faulty UpsertCalendars whose failure is swallowed: the run goes on to
\* the diff without the calendars of its batch stored.
UpsertCalendarsSwallowingFailure(r) ==
  /\ runs[r].pc = "calendars"
  /\ \E dbOk \in BOOLEAN :
       /\ calendars' = IF dbOk
                         THEN upsertCalendarsFromEvents(calendars, runs[r].batch, now)
                         ELSE calendars
       /\ runs' = [runs EXCEPT ![r].pc = StepAfter("calendars")]
  /\ UNCHANGED <<events, guild_settings, subscriptions, notifications_log,
                 now, cfg, lastCommit>>

\* upsertCalendarsFromEvents(events): one transaction; dbOk is whether
\* SQLite carries it out.
UpsertCalendars(r) ==
  /\ runs[r].pc = "calendars"
  /\ \E dbOk \in BOOLEAN :
       IF dbOk
         THEN /\ calendars' = upsertCalendarsFromEvents(calendars, runs[r].batch, now)
              /\ runs' = [runs EXCEPT ![r].pc = StepAfter("calendars")]
         ELSE /\ calendars' = calendars
              /\ runs' = [runs EXCEPT ![r] = Catches(@)]
  /\ UNCHANGED <<events, guild_settings, subscriptions, notifications_log,
                 now, cfg, lastCommit>>

\* A faulty ComputeDiff that stores the rows of the batch while it compares
\* them.
ComputeDiffStoringRows(r) ==
  /\ runs[r].pc = "diff"
  /\ \E dbOk \in BOOLEAN :
       IF dbOk
         THEN /\ runs' = [runs EXCEPT ![r].diffs = computeDiff(events, runs[r].batch),
                                      ![r].pc = StepAfter("diff")]
              /\ events' = upsertEvents(events, runs[r].batch)
         ELSE /\ runs' = [runs EXCEPT ![r] = Catches(@)]
              /\ events' = events
  /\ UNCHANGED <<calendars, guild_settings, subscriptions,
                 notifications_log, now, cfg, lastCommit>>

\* const diffs = computeDiff(events); dbOk is whether SQLite carries out its
\* prepare and its reads.
ComputeDiff(r) ==
  /\ runs[r].pc = "diff"
  /\ \E dbOk \in BOOLEAN :
       IF dbOk
         THEN runs' = [runs EXCEPT ![r].diffs = computeDiff(events, runs[r].batch),
                                   ![r].pc = StepAfter("diff")]
         ELSE runs' = [runs EXCEPT ![r] = Catches(@)]
  /\ UNCHANGED <<events, calendars, guild_settings, subscriptions,
                 notifications_log, now, cfg, lastCommit>>

\* A faulty UpsertEvents: the loop of stmt.run without db.transaction, so
\* that the rows written before the statement that throws stay.
UpsertEventsNoTransaction(r) ==
  /\ runs[r].pc = "upsert"
  /\ \E dbOk \in BOOLEAN :
       IF dbOk
         THEN /\ events' = upsertEvents(events, runs[r].batch)
              /\ lastCommit' = [snap |-> runs[r].snap, run |-> r, done |-> FALSE]
              /\ runs' = [runs EXCEPT ![r].pc = StepAfter("upsert"),
                                      ![r].snap = NoSnap,
                                      ![r].startEvents = EmptyEvents]
         ELSE /\ \E n \in 0..Len(runs[r].batch) :
                   events' = upsertEvents(events, SubSeq(runs[r].batch, 1, n))
              /\ lastCommit' = lastCommit
              /\ runs' = [runs EXCEPT ![r] = Catches(@)]
  /\ UNCHANGED <<calendars, guild_settings, subscriptions, notifications_log,
                 now, cfg>>

\* upsertEvents(events): one transaction.
UpsertEvents(r) ==
  /\ runs[r].pc = "upsert"
  /\ \E dbOk \in BOOLEAN :
       IF dbOk
         THEN /\ events' = upsertEvents(events, runs[r].batch)
              /\ lastCommit' = [snap |-> runs[r].snap, run |-> r, done |-> FALSE]
              /\ runs' = [runs EXCEPT ![r].pc = StepAfter("upsert"),
                                      ![r].snap = NoSnap,
                                      ![r].startEvents = EmptyEvents]
         ELSE /\ events' = events
              /\ lastCommit' = lastCommit
              /\ runs' = [runs EXCEPT ![r] = Catches(@)]
  /\ UNCHANGED <<calendars, guild_settings, subscriptions, notifications_log,
                 now, cfg>>

\* The body of a post: chunk + footer to one channel.
Message(dest, chunk) ==
  [channel_id |-> dest.channel_id, guild_id |-> dest.guild_id,
   text |-> chunk.text \o footer, entries |-> chunk.entries]

\* CHANNEL_IDS as destination rows.
ChannelDests == [i \in 1..Len(cfg.channels) |->
                   [guild_id |-> Absent, channel_id |-> cfg.channels[i]]]

\* A faulty DispatchChannels: an empty CHANNEL_IDS raises instead of
\* returning.
DispatchChannelsThrowsWithoutChannel(r) ==
  /\ runs[r].pc = "dispatch"
  /\ cfg.build = "channels"
  /\ LET lines == RenderLines(runs[r].diffs)
         chunks == Chunks(lines)
     IN IF cfg.token /\ cfg.channels = <<>>
          THEN /\ runs' = [runs EXCEPT ![r] = Catches(@)]
               /\ lastCommit' = lastCommit
        ELSE IF ~cfg.token \/ lines = <<>>
          THEN /\ runs' = [runs EXCEPT ![r] = Returns(@)]
               /\ lastCommit' = CommitDone(r)
          ELSE /\ runs' = [runs EXCEPT ![r].pc = "await", ![r].dests = ChannelDests,
                                       ![r].batch = <<>>,
                                       ![r].chunks = chunks, ![r].di = 1, ![r].ki = 1,
                                       ![r].pending = Message(ChannelDests[1], chunks[1])]
               /\ lastCommit' = lastCommit
  /\ UNCHANGED <<events, calendars, guild_settings, subscriptions,
                 notifications_log, now, cfg>>

\* await sendNotifications(diffs), channel-list dispatcher, up to its first
\* await or its return.
DispatchChannels(r) ==
  /\ runs[r].pc = "dispatch"
  /\ cfg.build = "channels"
  /\ LET lines == RenderLines(runs[r].diffs)
         chunks == Chunks(lines)
     IN IF ~cfg.token \/ cfg.channels = <<>> \/ lines = <<>>
          THEN /\ runs' = [runs EXCEPT ![r] = Returns(@)]
               /\ lastCommit' = CommitDone(r)
          ELSE /\ runs' = [runs EXCEPT ![r].pc = "await", ![r].dests = ChannelDests,
                                       ![r].batch = <<>>,
                                       ![r].chunks = chunks, ![r].di = 1, ![r].ki = 1,
                                       ![r].pending = Message(ChannelDests[1], chunks[1])]
               /\ lastCommit' = lastCommit
  /\ UNCHANGED <<events, calendars, guild_settings, subscriptions,
                 notifications_log, now, cfg>>

\* A post that has settled: ok is whether rest.post resolved.
Settled(msg, ok) ==
  [channel_id |-> msg.channel_id, guild_id |-> msg.guild_id, text |-> msg.text,
   entries |-> msg.entries, ok |-> ok]

\* A faulty PostSettlesChannels: a rejected post leaves the loop over the
\* chunks, and the dispatcher goes on with the next channel.
PostSettlesChannelsBreakOnFailure(r) ==
  /\ runs[r].pc = "await"
  /\ cfg.build = "channels"
  /\ \A q \in RunIds : runs[q].pc \notin SyncPcs
  /\ \E ok \in BOOLEAN :
       LET run == [runs[r] EXCEPT !.sent = Append(@, Settled(runs[r].pending, ok))]
       IN IF ok /\ run.ki < Len(run.chunks)
            THEN /\ runs' = [runs EXCEPT ![r] =
                       [run EXCEPT !.ki = run.ki + 1,
                                   !.pending = Message(run.dests[run.di],
                                                       run.chunks[run.ki + 1])]]
                 /\ lastCommit' = lastCommit
          ELSE IF run.di < Len(run.dests)
            THEN /\ runs' = [runs EXCEPT ![r] =
                       [run EXCEPT !.di = run.di + 1, !.ki = 1,
                                   !.pending = Message(run.dests[run.di + 1],
                                                       run.chunks[1])]]
                 /\ lastCommit' = lastCommit
          ELSE /\ runs' = [runs EXCEPT ![r] = Returns(run)]
               /\ lastCommit' = CommitDone(r)
  /\ UNCHANGED <<events, calendars, guild_settings, subscriptions,
                 notifications_log, now, cfg>>

\* A post of the channel-list dispatcher settles, ok or rejected (caught and
\* logged); the loops go on to the next chunk, the next channel, or end.
PostSettlesChannels(r) ==
  /\ runs[r].pc = "await"
  /\ cfg.build = "channels"
  /\ \A q \in RunIds : runs[q].pc \notin SyncPcs
  /\ \E ok \in BOOLEAN :
       LET run == [runs[r] EXCEPT !.sent = Append(@, Settled(runs[r].pending, ok))]
       IN IF run.ki < Len(run.chunks)
            THEN /\ runs' = [runs EXCEPT ![r] =
                       [run EXCEPT !.ki = run.ki + 1,
                                   !.pending = Message(run.dests[run.di],
                                                       run.chunks[run.ki + 1])]]
                 /\ lastCommit' = lastCommit
          ELSE IF run.di < Len(run.dests)
            THEN /\ runs' = [runs EXCEPT ![r] =
                       [run EXCEPT !.di = run.di + 1, !.ki = 1,
                                   !.pending = Message(run.dests[run.di + 1],
                                                       run.chunks[1])]]
                 /\ lastCommit' = lastCommit
          ELSE /\ runs' = [runs EXCEPT ![r] = Returns(run)]
               /\ lastCommit' = CommitDone(r)
  /\ UNCHANGED <<events, calendars, guild_settings, subscriptions,
                 notifications_log, now, cfg>>

\* A faulty GuildRowSet that takes the guilds from the subscriptions table,
\* joined to their settings: a guild without settings has a null channel.
GuildRowSetOfSubscribers ==
  {[guild_id |-> g,
    channel_id |-> IF guild_settings[g] = NoRow THEN Null
                   ELSE guild_settings[g].channel_id] :
     g \in {h \in Guilds : \E c \in CalendarIds : <<h, c>> \in subscriptions}}

\* SELECT guild_id, channel_id FROM guild_settings WHERE channel_id IS NOT
\* NULL: the rows, in any order SQLite may return them.
GuildRowSet ==
  {[guild_id |-> g, channel_id |-> guild_settings[g].channel_id] :
     g \in {h \in Guilds : guild_settings[h] # NoRow
                            /\ guild_settings[h].channel_id # Null}}

Orderings(S) ==
  {q \in [1..Cardinality(S) -> S] : \A x \in S : \E i \in DOMAIN q : q[i] = x}

\* The subscription dispatcher from guild row di on, up to its next await or
\* its return.
SubContinue(r, run, guildRows, di) ==
  LET adv == GuildLoop(guildRows, di, run.diffs, notifications_log,
                       subscriptions, calendars, now)
      inserted == Len(adv.log) - Len(notifications_log)
  IN /\ notifications_log' = adv.log
     /\ IF adv.di > Len(guildRows)
          THEN /\ runs' = [runs EXCEPT ![r] =
                     Returns([run EXCEPT !.logged = @ + inserted])]
               /\ lastCommit' = CommitDone(r)
          ELSE /\ runs' = [runs EXCEPT ![r] =
                     [run EXCEPT !.pc = "await", !.dests = guildRows, !.di = adv.di,
                                 !.batch = <<>>,
                                 !.logged = @ + inserted,
                                 !.pending =
                                   [channel_id |-> guildRows[adv.di].channel_id,
                                    guild_id |-> guildRows[adv.di].guild_id,
                                    text |-> adv.content.text,
                                    entries |-> adv.content.entries]]]
               /\ lastCommit' = lastCommit

\* await sendNotifications(diffs), subscription dispatcher, up to its first
\* await or its return; dbOk is whether SQLite carries out the query for
\* guildRows and the prepares (a throw there rejects the promise runOnce
\* awaits).
DispatchSubscriptions(r) ==
  /\ runs[r].pc = "dispatch"
  /\ cfg.build = "subscriptions"
  /\ IF ~cfg.token
       THEN /\ runs' = [runs EXCEPT ![r] = Returns(@)]
            /\ lastCommit' = CommitDone(r)
            /\ notifications_log' = notifications_log
       ELSE \E dbOk \in BOOLEAN :
              IF dbOk
                THEN \E guildRows \in Orderings(GuildRowSet) :
                       SubContinue(r, runs[r], guildRows, 1)
                ELSE /\ runs' = [runs EXCEPT ![r] = Catches(@)]
                     /\ lastCommit' = lastCommit
                     /\ notifications_log' = notifications_log
  /\ UNCHANGED <<events, calendars, guild_settings, subscriptions, now, cfg>>

\* A faulty PostSettlesSubscriptions: rest.post without its try/catch, so that
\* a rejected post ends sendNotifications and runOnce catches it.
PostSettlesSubscriptionsNoCatch(r) ==
  /\ runs[r].pc = "await"
  /\ cfg.build = "subscriptions"
  /\ \A q \in RunIds : runs[q].pc \notin SyncPcs
  /\ \E ok \in BOOLEAN :
       LET run == [runs[r] EXCEPT !.sent = Append(@, Settled(runs[r].pending, ok))]
       IN IF ok
            THEN SubContinue(r, run, run.dests, run.di + 1)
            ELSE /\ runs' = [runs EXCEPT ![r] = Catches(run)]
                 /\ lastCommit' = lastCommit
                 /\ notifications_log' = notifications_log
  /\ UNCHANGED <<events, calendars, guild_settings, subscriptions, now, cfg>>

\* A post of the subscription dispatcher settles; the loop goes on with the
\* next guild row.
PostSettlesSubscriptions(r) ==
  /\ runs[r].pc = "await"
  /\ cfg.build = "subscriptions"
  /\ \A q \in RunIds : runs[q].pc \notin SyncPcs
  /\ \E ok \in BOOLEAN :
       LET run == [runs[r] EXCEPT !.sent = Append(@, Settled(runs[r].pending, ok))]
       IN SubContinue(r, run, run.dests, run.di + 1)
  /\ UNCHANGED <<events, calendars, guild_settings, subscriptions, now, cfg>>

(***************************************************************************)
(* cmd.ts: the interactionCreate handler                                   *)
(***************************************************************************)
\* /notify set-channel
SetChannel(g) ==
  /\ guild_settings' = [guild_settings EXCEPT ![g] = [channel_id |-> ChannelOf(g)]]
  /\ UNCHANGED <<events, calendars, subscriptions, notifications_log, now, cfg,
                 runs, lastCommit>>

\* A faulty Subscribe that also registers the calendar it subscribes to.
SubscribeRegisteringCalendar(g, input) ==
  /\ \E cal \in ResolveCalendar(calendars, input) :
       /\ subscriptions' = subscriptions \cup {<<g, cal>>}
       /\ calendars' = [calendars EXCEPT ![cal] =
                          IF @ = NoRow THEN [name |-> Null, last_seen_at |-> now]
                          ELSE @]
  /\ UNCHANGED <<events, guild_settings, notifications_log, now, cfg,
                 runs, lastCommit>>

\* /notify subscribe calendar_id:<input>
Subscribe(g, input) ==
  /\ \E cal \in ResolveCalendar(calendars, input) :
       subscriptions' = subscriptions \cup {<<g, cal>>}
  /\ UNCHANGED <<events, calendars, guild_settings, notifications_log, now, cfg,
                 runs, lastCommit>>

\* /notify unsubscribe calendar_id:<input>
Unsubscribe(g, input) ==
  /\ \E cal \in ResolveCalendar(calendars, input) :
       subscriptions' = subscriptions \ {<<g, cal>>}
  /\ UNCHANGED <<events, calendars, guild_settings, notifications_log, now, cfg,
                 runs, lastCommit>>

\* /notify list: reads guild_calendar_subscriptions and calendars only.
List(g) ==
  /\ UNCHANGED vars

(***************************************************************************)
(* Snapshots fed to the worker                                             *)
(***************************************************************************)
Rec(calendar_id, event_id, title, starts_at, ends_at, url, location, updated_at) ==
  [calendar_id |-> calendar_id, event_id |-> event_id, title |-> title,
   starts_at |-> starts_at, ends_at |-> ends_at, url |-> url,
   location |-> location, updated_at |-> updated_at,
   is_global |-> Absent, calendar_name |-> Absent]

\* Arrays of at most n records of R.
ArraysOf(R, n) == UNION {[1..m -> R] : m \in 0..n}

File(name, kind, recs) == [name |-> name, kind |-> kind, recs |-> recs]
Dir(files) == [kind |-> "dir", files |-> files]
Missing == [kind |-> "missing", files |-> <<>>]

\* Records of the dispatch specifications: two titles for one event, one for
\* the other.
DispatchRecords ==
  {Rec("A", "1", t, "2025-09-01T10:00:00Z", Absent, Absent, Absent, Absent) :
     t \in {"Regional", "LongTitle"}}
  \cup {Rec("B", "1", "LongTitle", "2025-09-01T10:00:00Z", Absent, Absent, Absent, Absent)}

\* The data directory holds one file.
DispatchSnapshots ==
  {Missing, Dir(<<File("dfw_events.json", "malformed", <<>>)>>)}
  \cup {Dir(<<File("dfw_events.json", "array", a)>>) :
          a \in ArraysOf(DispatchRecords, MaxRecs)}

(***************************************************************************)
(* The worker built with the channel-list dispatcher                       *)
(***************************************************************************)
InitDb ==
  /\ events = EmptyEvents
  /\ calendars = [c \in CalendarIds |-> NoRow]
  /\ guild_settings = [g \in Guilds |-> NoRow]
  /\ subscriptions = {}
  /\ notifications_log = <<>>
  /\ now = 0
  /\ runs = [r \in RunIds |-> IdleRun]
  /\ lastCommit = NoCommit

Init ==
  /\ InitDb
  /\ cfg \in [token : BOOLEAN, channels : {<<>>, <<"c1">>, <<"c1", "c2">>},
              build : {"channels"}, runOnce : {FALSE}, guilds : {{}}]

Next ==
  \/ \E snap \in DispatchSnapshots : Tick(snap)
  \/ \E r \in RunIds : UpsertCalendars(r)
  \/ \E r \in RunIds : ComputeDiff(r)
  \/ \E r \in RunIds : UpsertEvents(r)
  \/ \E r \in RunIds : DispatchChannels(r)
  \/ \E r \in RunIds : PostSettlesChannels(r)

Spec == Init /\ [][Next]_vars

(***************************************************************************)
(* The worker built with the subscription dispatcher, beside the command   *)
(* process; the bot is installed in the guilds cfg.guilds                  *)
(***************************************************************************)
InitSub ==
  /\ InitDb
  /\ cfg = [token |-> TRUE, channels |-> <<>>, build |-> "subscriptions",
            runOnce |-> FALSE, guilds |-> {"g1"}]

NextSub ==
  \/ \E snap \in DispatchSnapshots : Tick(snap)
  \/ \E r \in RunIds : UpsertCalendars(r)
  \/ \E r \in RunIds : ComputeDiff(r)
  \/ \E r \in RunIds : UpsertEvents(r)
  \/ \E r \in RunIds : DispatchSubscriptions(r)
  \/ \E r \in RunIds : PostSettlesSubscriptions(r)
  \/ \E g \in cfg.guilds : SetChannel(g)
  \/ \E g \in cfg.guilds, input \in CalendarIds : Subscribe(g, input)
  \/ \E g \in cfg.guilds, input \in CalendarIds : Unsubscribe(g, input)
  \/ \E g \in cfg.guilds : List(g)

SpecSub == InitSub /\ [][NextSub]_vars

(***************************************************************************)
(* The same, fed with one record per event                                 *)
(***************************************************************************)
LedgerRecords ==
  {Rec("A", "1", "Regional", "2025-09-01T10:00:00Z", Absent, Absent, Absent, Absent),
   Rec("B", "1", "Regional", "2025-09-01T10:00:00Z", Absent, Absent, Absent, Absent)}

LedgerSnapshots ==
  {Dir(<<File("dfw_events.json", "array", a)>>) :
     a \in ArraysOf(LedgerRecords, MaxRecs)}

NextLedger ==
  \/ \E snap \in LedgerSnapshots : Tick(snap)
  \/ \E r \in RunIds : UpsertCalendars(r)
  \/ \E r \in RunIds : ComputeDiff(r)
  \/ \E r \in RunIds : UpsertEvents(r)
  \/ \E r \in RunIds : DispatchSubscriptions(r)
  \/ \E r \in RunIds : PostSettlesSubscriptions(r)
  \/ \E g \in cfg.guilds : SetChannel(g)
  \/ \E g \in cfg.guilds, input \in CalendarIds : Subscribe(g, input)
  \/ \E g \in cfg.guilds, input \in CalendarIds : Unsubscribe(g, input)
  \/ \E g \in cfg.guilds : List(g)

SpecLedger == InitSub /\ [][NextLedger]_vars

(***************************************************************************)
(* The worker run without DISCORD_TOKEN: load, diff and store only         *)
(***************************************************************************)
\* Records of one event that vary in a hashed field (location: missing, null
\* or "Hall") and in a field that is not hashed (updated_at), and one record
\* of another event.
DiffRecords ==
  {Rec("A", "1", "Regional", "2025-09-01T10:00:00Z", Absent, Absent, lu[1], lu[2]) :
     lu \in {<<Absent, Absent>>, <<Null, "u1">>, <<"Hall", Absent>>}}
  \cup {Rec("B", "1", "Regional", "2025-09-01T10:00:00Z", Absent, Absent, Absent, Absent)}

\* The data directory holds one file, under one of two names.
DiffSnapshots ==
  {Missing}
  \cup {Dir(<<File(name, "array", a)>>) :
          name \in {"dfw_events.json", "global_events.json"},
          a \in ArraysOf(DiffRecords, MaxRecs)}

InitDiff ==
  /\ InitDb
  /\ cfg = [token |-> FALSE, channels |-> <<>>, build |-> "channels",
            runOnce |-> FALSE, guilds |-> {}]

NextDiff ==
  \/ \E snap \in DiffSnapshots : Tick(snap)
  \/ \E r \in RunIds : UpsertCalendars(r)
  \/ \E r \in RunIds : ComputeDiff(r)
  \/ \E r \in RunIds : UpsertEvents(r)
  \/ \E r \in RunIds : DispatchChannels(r)

SpecDiff == InitDiff /\ [][NextDiff]_vars

(***************************************************************************)
(* The worker started with RUN_ONCE=1 and a token: one invocation of        *)
(* runOnce, with titles of every length                                    *)
(***************************************************************************)
OnceRecords ==
  {Rec("A", "1", t, "2025-09-01T10:00:00Z", Absent, Absent, Absent, Absent) :
     t \in Titles}
  \cup {Rec("B", "1", "LongTitle", "2025-09-01T10:00:00Z", Absent, Absent, Absent, Absent)}

OnceSnapshots ==
  {Missing}
  \cup {Dir(<<File("dfw_events.json", "array", a)>>) :
          a \in ArraysOf(OnceRecords, MaxRecs)}

InitOnce ==
  /\ InitDb
  /\ cfg \in [token : {TRUE}, channels : {<<"c1">>, <<"c1", "c2">>},
              build : {"channels"}, runOnce : {TRUE}, guilds : {{}}]

NextOnce ==
  \/ \E snap \in OnceSnapshots : Tick(snap)
  \/ \E r \in RunIds : UpsertCalendars(r)
  \/ \E r \in RunIds : ComputeDiff(r)
  \/ \E r \in RunIds : UpsertEvents(r)
  \/ \E r \in RunIds : DispatchChannels(r)
  \/ \E r \in RunIds : PostSettlesChannels(r)

SpecOnce == InitOnce /\ [][NextOnce]_vars

(***************************************************************************)
(* The worker started with RUN_ONCE=1 and a token, built with either       *)
(* dispatcher, with two channels configured and the bot installed in two   *)
(* guilds                                                                  *)
(***************************************************************************)
InitIsolate ==
  /\ InitDb
  /\ cfg \in [token : {TRUE}, channels : {<<"c1", "c2">>},
              build : {"channels", "subscriptions"}, runOnce : {TRUE},
              guilds : {Guilds}]

NextIsolate ==
  \/ \E snap \in LedgerSnapshots : Tick(snap)
  \/ \E r \in RunIds : UpsertCalendars(r)
  \/ \E r \in RunIds : ComputeDiff(r)
  \/ \E r \in RunIds : UpsertEvents(r)
  \/ \E r \in RunIds : DispatchChannels(r)
  \/ \E r \in RunIds : PostSettlesChannels(r)
  \/ \E r \in RunIds : DispatchSubscriptions(r)
  \/ \E r \in RunIds : PostSettlesSubscriptions(r)
  \/ \E g \in cfg.guilds : SetChannel(g)
  \/ \E g \in cfg.guilds, input \in CalendarIds : Subscribe(g, input)
  \/ \E g \in cfg.guilds, input \in CalendarIds : Unsubscribe(g, input)
  \/ \E g \in cfg.guilds : List(g)

SpecIsolate == InitIsolate /\ [][NextIsolate]_vars

(***************************************************************************)
(* The worker under cron with a token, built with either dispatcher, on    *)
(* snapshots that fail to load or hold one record                          *)
(***************************************************************************)
FailSnapshots ==
  {Missing, Dir(<<File("dfw_events.json", "malformed", <<>>)>>)}
  \cup {Dir(<<File("dfw_events.json", "array", <<rec>>)>>) : rec \in LedgerRecords}

InitFail ==
  /\ InitDb
  /\ cfg \in [token : {TRUE}, channels : {<<>>, <<"c1">>},
              build : {"channels", "subscriptions"}, runOnce : {FALSE},
              guilds : {{"g1"}}]

NextFail ==
  \/ \E snap \in FailSnapshots : Tick(snap)
  \/ \E r \in RunIds : UpsertCalendars(r)
  \/ \E r \in RunIds : ComputeDiff(r)
  \/ \E r \in RunIds : UpsertEvents(r)
  \/ \E r \in RunIds : DispatchChannels(r)
  \/ \E r \in RunIds : PostSettlesChannels(r)
  \/ \E r \in RunIds : DispatchSubscriptions(r)
  \/ \E r \in RunIds : PostSettlesSubscriptions(r)
  \/ \E g \in cfg.guilds : SetChannel(g)
  \/ \E g \in cfg.guilds, input \in CalendarIds : Subscribe(g, input)
  \/ \E g \in cfg.guilds, input \in CalendarIds : Unsubscribe(g, input)
  \/ \E g \in cfg.guilds : List(g)

SpecFail == InitFail /\ [][NextFail]_vars

(***************************************************************************)
(* The worker under cron with a token and one channel, on snapshots of one *)
(* record of a regional or a global calendar                               *)
(***************************************************************************)
\* Records of one event that vary in starts_at and in location (missing,
\* empty or "Hall").
RenderRecords ==
  {Rec("A", "1", "Regional", s, Absent, Absent, l, Absent) :
     s \in {"2025-09-01T10:00:00Z", "2025-09-02T10:00:00Z"},
     l \in {Absent, "", "Hall"}}

RenderSnapshots ==
  {Dir(<<File(name, "array", <<rec>>)>>) :
     name \in {"dfw_events.json", "global_events.json"}, rec \in RenderRecords}

InitRender ==
  /\ InitDb
  /\ cfg = [token |-> TRUE, channels |-> <<"c1">>, build |-> "channels",
            runOnce |-> FALSE, guilds |-> {}]

NextRender ==
  \/ \E snap \in RenderSnapshots : Tick(snap)
  \/ \E r \in RunIds : UpsertCalendars(r)
  \/ \E r \in RunIds : ComputeDiff(r)
  \/ \E r \in RunIds : UpsertEvents(r)
  \/ \E r \in RunIds : DispatchChannels(r)
  \/ \E r \in RunIds : PostSettlesChannels(r)

SpecRender == InitRender /\ [][NextRender]_vars

(***************************************************************************)
(* The worker without a token, on a data directory of several files        *)
(***************************************************************************)
LoadRecords ==
  {Rec(c, "1", "Regional", "2025-09-01T10:00:00Z", Absent, Absent, Absent, Absent) :
     c \in CalendarIds}

\* The files one name can hold: not JSON, blank, JSON that is no array, or an
\* array of one record.
LoadFiles(name) ==
  {File(name, kind, <<>>) : kind \in {"malformed", "blank", "other"}}
  \cup {File(name, "array", <<rec>>) : rec \in LoadRecords}

\* DATA_JSON_PATH is missing, is one file, or is a directory of two .json
\* files and a text file, read in either order.
LoadSnapshots ==
  {Missing}
  \cup {[kind |-> "file", files |-> <<f>>] : f \in LoadFiles("dfw_events.json")}
  \cup UNION {{Dir(<<f, g, File("notes.txt", "malformed", <<>>)>>),
               Dir(<<g, File("notes.txt", "malformed", <<>>), f>>)} :
                f \in LoadFiles("dfw_events.json"),
                g \in LoadFiles("global_events.json") \cup LoadFiles(".json")}

NextLoad ==
  \/ \E snap \in LoadSnapshots : Tick(snap)
  \/ \E r \in RunIds : UpsertCalendars(r)
  \/ \E r \in RunIds : ComputeDiff(r)
  \/ \E r \in RunIds : UpsertEvents(r)
  \/ \E r \in RunIds : DispatchChannels(r)

SpecLoad == InitDiff /\ [][NextLoad]_vars

(***************************************************************************)
(* Properties of the diff engine (SpecDiff)                                *)
(***************************************************************************)
\* C1: when computeDiff has returned, every key of the batch that had no row
\* in the events table has exactly one new_event entry in the result and no
\* event_changed entry.
C1_OneNewPerAbsentKey ==
  \A r \in RunIds :
    runs[r].pc = "upsert" =>
      \A i \in 1..Len(runs[r].batch) :
        LET k == KeyOf(runs[r].batch[i])
            entries(type) == {j \in 1..Len(runs[r].diffs) :
                                /\ KeyOf(runs[r].diffs[j]) = k
                                /\ runs[r].diffs[j].type = type}
        IN runs[r].startEvents[k] = NoRow =>
             /\ Cardinality(entries("new_event")) = 1
             /\ entries("event_changed") = {}

\* C2: when computeDiff has returned, every record of the batch whose key has
\* a stored row with another content hash has an event_changed entry whose
\* payload is the record and whose previous holds the stored title,
\* starts_at, ends_at, url and location.
C2_ChangedCarriesStoredFields ==
  \A r \in RunIds :
    runs[r].pc = "upsert" =>
      \A i \in 1..Len(runs[r].batch) :
        LET e == runs[r].batch[i]
            row == runs[r].startEvents[KeyOf(e)]
        IN (row # NoRow /\ row.content_hash # hashEvent(e)) =>
             \E j \in 1..Len(runs[r].diffs) :
               LET d == runs[r].diffs[j]
               IN /\ d.type = "event_changed"
                  /\ d.payload = e
                  /\ d.previous.title = row.title
                  /\ d.previous.starts_at = row.starts_at
                  /\ d.previous.ends_at = row.ends_at
                  /\ d.previous.url = row.url
                  /\ d.previous.location = row.location

\* C2 witness: computeDiff has returned for a record whose stored row holds
\* location "Hall" while the record holds none.
C2_Witness ==
  \E r \in RunIds :
    /\ runs[r].pc = "upsert"
    /\ \E i \in 1..Len(runs[r].batch) :
         LET e == runs[r].batch[i]
             row == runs[r].startEvents[KeyOf(e)]
         IN /\ row # NoRow
            /\ row.location = "Hall"
            /\ e.location \in {Absent, Null}
            /\ \E j \in 1..Len(runs[r].diffs) :
                 runs[r].diffs[j].type = "event_changed"

\* C3: when computeDiff has returned, a key whose records in the batch all
\* carry the title, starts_at, ends_at, url and location of its stored row
\* has no entry in the result, whatever updated_at, calendar_name and
\* is_global are.
C3_SameContentNoEntry ==
  \A r \in RunIds :
    runs[r].pc = "upsert" =>
      \A k \in Keys :
        LET row == runs[r].startEvents[k]
            recs == {i \in 1..Len(runs[r].batch) : KeyOf(runs[r].batch[i]) = k}
            same(e) == /\ e.title = row.title
                       /\ e.starts_at = row.starts_at
                       /\ Coalesce(e.ends_at, Null) = row.ends_at
                       /\ Coalesce(e.url, Null) = row.url
                       /\ Coalesce(e.location, Null) = row.location
        IN (row # NoRow /\ recs # {} /\ \A i \in recs : same(runs[r].batch[i])) =>
             \A j \in 1..Len(runs[r].diffs) : KeyOf(runs[r].diffs[j]) # k

\* C3 witness: computeDiff has returned nothing for a record that has the
\* content of its stored row (no location) but another updated_at, and comes
\* from the global file while its calendar was named by the dfw file.
C3_Witness ==
  \E r \in RunIds :
    /\ runs[r].pc = "upsert"
    /\ runs[r].diffs = <<>>
    /\ \E i \in 1..Len(runs[r].batch) :
         LET e == runs[r].batch[i]
             row == runs[r].startEvents[KeyOf(e)]
         IN /\ row # NoRow
            /\ row.location = Null
            /\ e.location \in {Absent, Null}
            /\ row.updated_at # Coalesce(e.updated_at, Null)
            /\ e.is_global = TRUE
            /\ e.calendar_name = "Global Events"
            /\ calendars[e.calendar_id].name = "DFW Events"

\* C5: from the load up to upsertEvents the events table is the one the run
\* found, and the result computeDiff returned is the classification of the
\* batch against that table.
C5_DiffBeforeUpsert ==
  \A r \in RunIds :
    /\ runs[r].pc \in {"calendars", "diff", "upsert"} =>
         events = runs[r].startEvents
    /\ runs[r].pc = "upsert" =>
         runs[r].diffs = computeDiff(runs[r].startEvents, runs[r].batch)

\* C5 witness: computeDiff has returned entries for a batch, over a table
\* that an earlier run filled, and upsertEvents has not run yet.
C5_Witness ==
  \E r \in RunIds :
    /\ runs[r].pc = "upsert"
    /\ runs[r].diffs # <<>>
    /\ runs[r].startEvents # EmptyEvents
    /\ upsertEvents(events, runs[r].batch) # events

(***************************************************************************)
(* Properties of the whole pipeline with the channel-list dispatcher       *)
(* (Spec)                                                                  *)
(***************************************************************************)
\* C4: a run over the snapshot that the run before it committed and
\* completed on posts no message and inserts no ledger row.
C4_RerunSendsNothing ==
  \A r \in RunIds :
    runs[r].rerun =>
      /\ runs[r].pending = NoMessage
      /\ runs[r].sent = <<>>
      /\ runs[r].logged = 0

(***************************************************************************)
(* Properties of the subscription dispatcher and the ledger (SpecSub,      *)
(* SpecLedger)                                                             *)
(***************************************************************************)
\* C6: a message that is posted to a guild holds no line of a diff entry
\* whose (guild, calendar_id, event_id, type) had a row in notifications_log
\* when the dispatcher composed the message.
C6_LoggedLineOmitted ==
  [][\A r \in RunIds :
       (runs'[r].pending # NoMessage /\ runs'[r].pending # runs[r].pending) =>
         \A n \in 1..Len(runs'[r].pending.entries) :
           LET d == runs'[r].diffs[runs'[r].pending.entries[n]]
           IN ~ \E i \in 1..Len(notifications_log) :
                  LogKey(notifications_log[i]) =
                    <<runs'[r].pending.guild_id, d.calendar_id, d.event_id, d.type>>]_vars

\* C7: a run has inserted ledger rows only if one of its posts has
\* succeeded.
C7_LedgerRowAfterSuccessfulSend ==
  \A r \in RunIds :
    runs[r].logged > 0 => \E i \in 1..Len(runs[r].sent) : runs[r].sent[i].ok

\* C8: notifications_log never holds two rows with the same (guild_id,
\* calendar_id, event_id, type), and every step leaves the rows it held in
\* place and unchanged, adding rows at most.
C8_LedgerUniqueAppendOnly ==
  /\ [](\A i, j \in 1..Len(notifications_log) :
          LogKey(notifications_log[i]) = LogKey(notifications_log[j]) => i = j)
  /\ [][/\ Len(notifications_log) <= Len(notifications_log')
        /\ SubSeq(notifications_log', 1, Len(notifications_log)) = notifications_log]_vars

\* C8 witness: a message of two lines is being posted by a run that inserted
\* one ledger row only: the second logInsert met the key of a row in place.
C8_Witness ==
  \E r \in RunIds :
    /\ runs[r].pending # NoMessage
    /\ Len(runs[r].pending.entries) = 2
    /\ runs[r].logged = 1
    /\ Len(notifications_log) >= 1

\* C9: every line of a message that is posted to a guild renders a diff
\* entry whose calendar the guild is subscribed to when the message is
\* composed.
C9_OnlySubscribedCalendars ==
  [][\A r \in RunIds :
       (runs'[r].pending # NoMessage /\ runs'[r].pending # runs[r].pending) =>
         \A n \in 1..Len(runs'[r].pending.entries) :
           <<runs'[r].pending.guild_id,
             runs'[r].diffs[runs'[r].pending.entries[n]].calendar_id>> \in subscriptions]_vars

\* C9 witness: the diffs of a run hold entries of calendars A and B, and the
\* message being posted to the guild, subscribed to A only, holds the line of
\* A alone.
C9_Witness ==
  \E r \in RunIds :
    /\ runs[r].pending # NoMessage
    /\ {runs[r].diffs[j].calendar_id : j \in 1..Len(runs[r].diffs)} = {"A", "B"}
    /\ subscriptions = {<<runs[r].pending.guild_id, "A">>}
    /\ {runs[r].diffs[runs[r].pending.entries[n]].calendar_id :
          n \in 1..Len(runs[r].pending.entries)} = {"A"}

(***************************************************************************)
(* Properties of the chunker (SpecOnce)                                    *)
(***************************************************************************)
\* C10: every message being posted (chunk plus footer) is at most maxLen
\* characters long and begins with the header, and when header, lines and
\* footer together are longer than maxLen the run posts two chunks at least.
C10_MessagesWithinBudget ==
  \A r \in RunIds :
    runs[r].pc = "await" =>
      LET lines == RenderLines(runs[r].diffs)
          whole == header \o <<NL>>
                   \o Join([i \in 1..Len(lines) |-> lines[i].text], NL) \o footer
      IN /\ TextLen(runs[r].pending.text) <= maxLen
         /\ SubSeq(runs[r].pending.text, 1, Len(header)) = header
         /\ TextLen(whole) > maxLen => Len(runs[r].chunks) >= 2

\* C11: every message being posted begins with the header, ends with the
\* footer and holds the line of one diff entry at least between them.
C11_MessageHasEventLine ==
  \A r \in RunIds :
    runs[r].pc = "await" =>
      LET text == runs[r].pending.text
      IN /\ Len(text) >= Len(header) + Len(footer)
         /\ SubSeq(text, 1, Len(header)) = header
         /\ SubSeq(text, Len(text) - Len(footer) + 1, Len(text)) = footer
         /\ runs[r].pending.entries # <<>>
         /\ Len(text) > Len(header) + Len(footer)

(***************************************************************************)
(* Properties of delivery (SpecIsolate)                                    *)
(***************************************************************************)
\* C12: when a post is rejected, runOnce does not fail, notifications_log
\* keeps every row it held, and the dispatcher goes on: the channel-list
\* dispatcher posts the next chunk or the first chunk to the next channel,
\* the subscription dispatcher posts to the next guild row that is subscribed
\* to a calendar of the diffs; only when none is left does the run return.
C12_FailedPostIsolated ==
  [][\A r \in RunIds :
       ( /\ runs[r].pc = "await"
         /\ Len(runs'[r].sent) = Len(runs[r].sent) + 1
         /\ ~ runs'[r].sent[Len(runs'[r].sent)].ok ) =>
         LET run == runs[r]
             later == {i \in (run.di + 1)..Len(run.dests) :
                         \E j \in 1..Len(run.diffs) :
                           <<run.dests[i].guild_id, run.diffs[j].calendar_id>>
                             \in subscriptions}
             next == CHOOSE i \in later : \A k \in later : i <= k
         IN /\ Len(notifications_log) <= Len(notifications_log')
            /\ SubSeq(notifications_log', 1, Len(notifications_log)) = notifications_log
            /\ runs'[r].pc # "failed"
            /\ cfg.build = "channels" =>
                 IF run.ki < Len(run.chunks)
                   THEN /\ runs'[r].pc = "await"
                        /\ runs'[r].pending.channel_id = run.dests[run.di].channel_id
                        /\ runs'[r].pending.text = run.chunks[run.ki + 1].text \o footer
                 ELSE IF run.di < Len(run.dests)
                   THEN /\ runs'[r].pc = "await"
                        /\ runs'[r].pending.channel_id = run.dests[run.di + 1].channel_id
                        /\ runs'[r].pending.text = run.chunks[1].text \o footer
                 ELSE runs'[r].pc = "done"
            /\ cfg.build = "subscriptions" =>
                 IF later # {}
                   THEN /\ runs'[r].pc = "await"
                        /\ runs'[r].pending.guild_id = run.dests[next].guild_id
                        /\ runs'[r].pending.channel_id = run.dests[next].channel_id
                   ELSE runs'[r].pc = "done"]_vars

\* C12 witness: the post to one guild was rejected, the post to the other
\* guild is pending, and notifications_log holds rows of both.
C12_Witness ==
  \E r \in RunIds :
    /\ cfg.build = "subscriptions"
    /\ runs[r].pc = "await"
    /\ Len(runs[r].sent) = 1
    /\ ~ runs[r].sent[1].ok
    /\ runs[r].pending.guild_id # runs[r].sent[1].guild_id
    /\ {notifications_log[i].guild_id : i \in 1..Len(notifications_log)} = Guilds

(***************************************************************************)
(* Properties of the scheduler (Spec, SpecFail)                            *)
(***************************************************************************)
\* C13: at most one run of runOnce is in progress at any time, a run
\* awaiting a post included.
C13_OneRunInProgress ==
  Cardinality({r \in RunIds : runs[r].pc \notin {"idle", "done", "failed"}}) <= 1

\* C14: a run that threw ended in the catch block of runOnce, at one of the
\* five stages, and while ticks remain the next tick still starts a run.
C14_FailedRunDoesNotStopTicks ==
  \A r \in RunIds :
    runs[r].pc = "failed" =>
      /\ runs[r].failedAt \in {"load", "calendars", "diff", "upsert", "dispatch"}
      /\ now < MaxTicks => ENABLED (\E snap \in FailSnapshots : Tick(snap))

\* C14 witness: a run failed in the dispatcher, after its upserts, and ticks
\* remain.
C14_Witness ==
  \E r \in RunIds :
    /\ runs[r].pc = "failed"
    /\ runs[r].failedAt = "dispatch"
    /\ now < MaxTicks

(***************************************************************************)
(* Properties of the store (SpecDiff)                                      *)
(***************************************************************************)
\* C15: the events table changes only in the step that ends upsertEvents,
\* and that step either throws and leaves the table as it was, or leaves
\* every key of the batch with the row of its last record and every other
\* key as it was.  The calendars table changes only in the step that ends
\* upsertCalendarsFromEvents, which either throws and leaves the table as it
\* was, or leaves every calendar of the batch with a row seen at the time of
\* the run and every other calendar as it was.
C15_UpsertsAllOrNothing ==
  [][/\ \A r \in RunIds :
          (runs[r].pc = "upsert" /\ runs'[r].pc # "upsert") =>
            LET b == runs[r].batch
                last(k) == CHOOSE i \in 1..Len(b) :
                             KeyOf(b[i]) = k /\ \A j \in (i + 1)..Len(b) : KeyOf(b[j]) # k
            IN \/ runs'[r].pc = "failed" /\ events' = events
               \/ /\ runs'[r].pc = "dispatch"
                  /\ \A k \in Keys :
                       IF \E i \in 1..Len(b) : KeyOf(b[i]) = k
                         THEN events'[k] = EventRow(b[last(k)])
                         ELSE events'[k] = events[k]
     /\ \A r \in RunIds :
          (runs[r].pc = "calendars" /\ runs'[r].pc # "calendars") =>
            LET b == runs[r].batch
            IN \/ runs'[r].pc = "failed" /\ calendars' = calendars
               \/ /\ runs'[r].pc = "diff"
                  /\ \A c \in CalendarIds :
                       IF \E i \in 1..Len(b) : b[i].calendar_id = c
                         THEN calendars'[c] # NoRow /\ calendars'[c].last_seen_at = now
                         ELSE calendars'[c] = calendars[c]
     /\ events' # events => \E r \in RunIds : runs[r].pc = "upsert"
     /\ calendars' # calendars => \E r \in RunIds : runs[r].pc = "calendars"]_vars

\* C15 witness: upsertEvents threw on a batch holding records of calendars A
\* and B, and no row of A is in the events table.
C15_Witness ==
  \E r \in RunIds :
    /\ runs[r].pc = "failed"
    /\ runs[r].failedAt = "upsert"
    /\ \A c \in CalendarIds : calendars[c] # NoRow /\ calendars[c].last_seen_at = now
    /\ events[<<"A", "1">>] = NoRow
    /\ events[<<"B", "1">>] # NoRow

\* C16: a run that failed in one of its two upserts has committed nothing:
\* no calendars row carries the time of that run, the run has posted no
\* message and has inserted no ledger row.
C16_FailedUpsertCommitsNothing ==
  \A r \in RunIds :
    (runs[r].pc = "failed" /\ runs[r].failedAt \in {"calendars", "upsert"}) =>
      /\ \A c \in CalendarIds :
           calendars[c] = NoRow \/ calendars[c].last_seen_at # now
      /\ runs[r].sent = <<>>
      /\ runs[r].logged = 0

(***************************************************************************)
(* Properties of the loader (SpecLoad)                                     *)
(***************************************************************************)
\* C17: when a run on a directory has ended, every record of every
\* well-formed .json file of the directory has its row in the events table,
\* whatever the other files hold.
C17_MalformedFileConfined ==
  \A r \in RunIds :
    (runs[r].pc = "failed" /\ runs[r].failedAt = "load" /\ runs[r].snap.kind = "dir") =>
      \A i \in 1..Len(runs[r].snap.files) :
        LET file == runs[r].snap.files[i]
        IN (EndsWithJson(file.name) /\ file.kind = "array") =>
             \A j \in 1..Len(file.recs) : events[KeyOf(file.recs[j])] # NoRow

(***************************************************************************)
(* Properties of a run on a missing path (SpecFail)                        *)
(***************************************************************************)
\* C18: a tick that finds no file or directory at DATA_JSON_PATH leaves its
\* run failed in the load, with no message posted or pending and no ledger
\* row inserted, and leaves the calendars, events and notifications_log
\* tables as they were; the run stays failed.
C18_MissingPathFailsRun ==
  /\ [](\A r \in RunIds :
          runs[r].snap = Missing =>
            /\ runs[r].pc = "failed"
            /\ runs[r].failedAt = "load"
            /\ runs[r].sent = <<>>
            /\ runs[r].pending = NoMessage
            /\ runs[r].logged = 0)
  /\ [][\A r \in RunIds :
          (runs'[r].snap = Missing /\ now' # now) =>
            /\ calendars' = calendars
            /\ events' = events
            /\ notifications_log' = notifications_log]_vars

\* C18 witness: a run failed on a missing path while the events table holds
\* a row and another run is awaiting a post.
C18_Witness ==
  \E r, q \in RunIds :
    /\ runs[r].snap = Missing
    /\ runs[r].pc = "failed"
    /\ runs[q].pc = "await"
    /\ events[<<"A", "1">>] # NoRow

C20_DiffIgnoresOrder ==
  \A r \in RunIds :
    runs[r].pc = "upsert" =>
      LET b == runs[r].batch
          n == Len(b)
          got == runs[r].diffs
      IN \A p \in {q \in [1..n -> 1..n] : \A i \in 1..n : \E j \in 1..n : q[j] = i} :
           LET other == computeDiff(events, [i \in 1..n |-> b[p[i]]])
           IN /\ Len(other) = Len(got)
              /\ {other[i] : i \in 1..Len(other)} = {got[i] : i \in 1..Len(got)}

\* C20 witness: computeDiff has returned two entries, one new_event and one
\* event_changed, for a batch of two different records.
C20_Witness ==
  \E r \in RunIds :
    /\ runs[r].pc = "upsert"
    /\ Len(runs[r].batch) = 2
    /\ runs[r].batch[1] # runs[r].batch[2]
    /\ Len(runs[r].diffs) = 2
    /\ {runs[r].diffs[i].type : i \in 1..2} = {"new_event", "event_changed"}

(***************************************************************************)
(* Properties of the hash (SpecDiff)                                       *)
(***************************************************************************)
\* The five hashed fields of x and y hold the same values, a missing one
\* counting as null.
SameHashedFields(x, y) ==
  LET norm(v) == IF v = Absent THEN Null ELSE v
  IN /\ x.title = y.title
     /\ x.starts_at = y.starts_at
     /\ norm(x.ends_at) = norm(y.ends_at)
     /\ norm(x.url) = norm(y.url)
     /\ norm(x.location) = norm(y.location)

\* C21: when computeDiff has returned, any two records of the batch equal in
\* title, starts_at, ends_at, url and location (missing counting as null)
\* have the same hashEvent, whatever their other fields and in whatever
\* order their properties were written; any two rows of the events table
\* equal in these fields hold the same content_hash; and a record whose key
\* has a row got an event_changed entry exactly when these five fields of the
\* row and of the record differ.
C21_HashOfFiveFieldsOnly ==
  /\ \A k1, k2 \in Keys :
       (events[k1] # NoRow /\ events[k2] # NoRow
        /\ SameHashedFields(events[k1], events[k2])) =>
         events[k1].content_hash = events[k2].content_hash
  /\ \A r \in RunIds :
       runs[r].pc = "upsert" =>
         LET b == runs[r].batch
             d == runs[r].diffs
         IN /\ \A i, j \in 1..Len(b) :
                 SameHashedFields(b[i], b[j]) => hashEvent(b[i]) = hashEvent(b[j])
            /\ \A i \in 1..Len(b) : \A o1, o2 \in PropertyOrders :
                 hashEvent(AsEventRecord(ObjectOf(b[i], o1)))
                   = hashEvent(AsEventRecord(ObjectOf(b[i], o2)))
            /\ \A i \in 1..Len(b) :
                 events[KeyOf(b[i])] # NoRow =>
                   ((\E n \in 1..Len(d) : d[n].type = "event_changed" /\ d[n].payload = b[i])
                      <=> ~ SameHashedFields(events[KeyOf(b[i])], b[i]))

\* C21 witness: computeDiff has returned for a batch of two records, of
\* different calendars and different updated_at, one with location missing
\* and one with location null, and both keys have a row.
C21_Witness ==
  \E r \in RunIds :
    /\ runs[r].pc = "upsert"
    /\ Len(runs[r].batch) = 2
    /\ runs[r].batch[1].calendar_id # runs[r].batch[2].calendar_id
    /\ runs[r].batch[1].updated_at # runs[r].batch[2].updated_at
    /\ {runs[r].batch[1].location, runs[r].batch[2].location} = {Absent, Null}
    /\ \A k \in Keys : events[k] # NoRow

(***************************************************************************)
(* Properties of the rendered lines (SpecRender)                           *)
(***************************************************************************)
\* C22: the message being posted for a new_event entry shows the localized
\* start time exactly when the event is not flagged global.
C22_TimeOnlyForRegionalEvents ==
  \A r \in RunIds :
    runs[r].pc = "await" =>
      \A n \in {runs[r].pending.entries[i] : i \in 1..Len(runs[r].pending.entries)} :
        LET d == runs[r].diffs[n]
            text == runs[r].pending.text
            showsTime == \E i \in 1..Len(text) : text[i] = formatWhen(d.payload.starts_at)
        IN d.type = "new_event" => (showsTime <=> d.payload.is_global # TRUE)

\* C23: the message being posted for an event_changed entry holds the
\* segment of a field among date/time, end, location, url and title exactly
\* when the stored value and the incoming value of that field differ (a
\* missing value counting as null).
C23_SegmentPerChangedField ==
  \A r \in RunIds :
    runs[r].pc = "await" =>
      \A n \in {runs[r].pending.entries[i] : i \in 1..Len(runs[r].pending.entries)} :
        LET d == runs[r].diffs[n]
            text == runs[r].pending.text
            norm(v) == IF v = Absent THEN Null ELSE v
            label == [starts_at |-> "date/time: ", ends_at |-> "end: ",
                      location |-> "location: ", url |-> "url: ",
                      title |-> "title: "]
        IN d.type = "event_changed" =>
             \A f \in DOMAIN label :
               (\E i \in 1..Len(text) : text[i] = label[f])
                 <=> norm(d.previous[f]) # norm(d.payload[f])

(***************************************************************************)
(* Properties of dispatch without destination (SpecFail)                   *)
(***************************************************************************)
\* C24: with a token and no channel id configured, sendNotifications of the
\* channel-list dispatcher returns at once: the run ends done, not failed,
\* with no post attempted or pending and every table as it was; no run is
\* ever awaiting a post.
C24_NoChannelSkipsDispatch ==
  /\ [](\A r \in RunIds :
          (cfg.build = "channels" /\ cfg.channels = <<>>) =>
            /\ runs[r].pc # "await"
            /\ runs[r].sent = <<>>
            /\ runs[r].failedAt # "dispatch")
  /\ [][\A r \in RunIds :
          (/\ cfg.build = "channels" /\ cfg.channels = <<>>
           /\ runs[r].pc = "dispatch" /\ runs'[r].pc # "dispatch") =>
            /\ runs'[r].pc = "done"
            /\ runs'[r].pending = NoMessage
            /\ events' = events
            /\ calendars' = calendars
            /\ notifications_log' = notifications_log]_vars

\* C24 witness: with no channel id configured, the first run has committed a
\* new event and has returned.
C24_Witness ==
  \E r \in RunIds :
    /\ cfg.build = "channels"
    /\ cfg.token
    /\ cfg.channels = <<>>
    /\ now = 1
    /\ runs[r].pc = "done"
    /\ lastCommit.done
    /\ \E k \in Keys : events[k] # NoRow

(***************************************************************************)
(* Properties of delivery and the store (Spec)                             *)
(***************************************************************************)
\* C25: the settling of a post, resolved or rejected, and the return of
\* sendNotifications leave the events table as upsertEvents committed it; and
\* a run over the snapshot that the run before it committed, after which every
\* post failed or none was made, computes no diff entry and posts nothing.
C25_FailedDeliveryNotRetried ==
  /\ [](\A r \in RunIds :
          (runs[r].undelivered /\ runs[r].pc \in {"upsert", "dispatch", "await"}) =>
            /\ runs[r].diffs = <<>>
            /\ runs[r].pending = NoMessage)
  /\ [][\A r \in RunIds :
          (runs[r].pc \in {"dispatch", "await"} /\ runs'[r] # runs[r]) =>
            events' = events]_vars

(***************************************************************************)
(* Properties of keys missing from the snapshot (SpecFail)                 *)
(***************************************************************************)
\* C26: no row of the events table is ever deleted; computeDiff returns
\* entries only for keys of the batch; the step that ends upsertEvents leaves
\* the row of every key that is not in the batch as it was; the diffs of a run
\* do not change while it dispatches, and every message it posts renders
\* entries of these diffs.
C26_MissingKeysUntouched ==
  /\ [](\A r \in RunIds :
          runs[r].pending # NoMessage =>
            \A i \in 1..Len(runs[r].pending.entries) :
              runs[r].pending.entries[i] \in 1..Len(runs[r].diffs))
  /\ [][/\ \A k \in Keys : events[k] # NoRow => events'[k] # NoRow
        /\ \A r \in RunIds :
             LET b == runs[r].batch
                 inBatch(k) == \E i \in 1..Len(b) : KeyOf(b[i]) = k
             IN /\ (runs[r].pc = "diff" /\ runs'[r].pc = "upsert") =>
                     \A n \in 1..Len(runs'[r].diffs) :
                       inBatch(<<runs'[r].diffs[n].calendar_id,
                                 runs'[r].diffs[n].event_id>>)
                /\ (runs[r].pc = "upsert" /\ runs'[r].pc # "upsert") =>
                     \A k \in Keys : ~ inBatch(k) => events'[k] = events[k]
                /\ (runs[r].pc \in {"upsert", "dispatch", "await"}
                    /\ runs'[r].pc \in {"dispatch", "await"}) =>
                     runs'[r].diffs = runs[r].diffs]_vars

\* C26 witness: computeDiff has returned an entry for a batch that does not
\* hold key (A, 1), which has a row in the events table.
C26_Witness ==
  \E r \in RunIds :
    /\ runs[r].pc = "upsert"
    /\ runs[r].diffs # <<>>
    /\ \A i \in 1..Len(runs[r].batch) : KeyOf(runs[r].batch[i]) # <<"A", "1">>
    /\ events[<<"A", "1">>] # NoRow

(***************************************************************************)
(* Properties of the command layer (SpecFail)                              *)
(***************************************************************************)
\* C27: a step that is no step of a worker run (no run moves and no tick
\* fires), and any step that changes guild_settings or the subscriptions,
\* leaves the events, calendars and notifications_log tables as they were;
\* a step that changes the subscriptions or guild_settings is no step of a
\* worker run.
C27_CommandsWriteOwnTablesOnly ==
  [][/\ (runs' = runs /\ now' = now) =>
          /\ events' = events
          /\ calendars' = calendars
          /\ notifications_log' = notifications_log
     /\ (guild_settings' # guild_settings \/ subscriptions' # subscriptions) =>
          /\ runs' = runs
          /\ now' = now
          /\ events' = events
          /\ calendars' = calendars
          /\ notifications_log' = notifications_log]_vars

\* C27 witness: guild g1 has set its channel and subscribed to a calendar
\* while a run that has inserted a ledger row is awaiting its post.
C27_Witness ==
  \E r \in RunIds :
    /\ runs[r].pc = "await"
    /\ guild_settings["g1"] # NoRow
    /\ subscriptions # {}
    /\ notifications_log # <<>>
    /\ \E k \in Keys : events[k] # NoRow

(***************************************************************************)
(* Properties of chunking and of the posts of one run (SpecOnce)           *)
(***************************************************************************)
\* The text of a message that holds the lines numbered by entries: the
\* header, each line after a newline, and the footer.
RECURSIVE TextOfLines(_, _)
TextOfLines(lines, entries) ==
  IF entries = <<>> THEN <<>>
  ELSE <<NL>> \o lines[Head(entries)].text \o TextOfLines(lines, Tail(entries))

RECURSIVE ConcatEntries(_)
ConcatEntries(msgs) ==
  IF msgs = <<>> THEN <<>> ELSE Head(msgs).entries \o ConcatEntries(Tail(msgs))

\* C28: when the channel-list dispatcher returns, every diff entry of the
\* run has one rendered line, and for every configured channel the messages
\* posted to it, in the order of posting, hold between header and footer the
\* lines of entries 1, 2, ..., n of the diffs, each once and in that order.
C28_ChunkingKeepsEveryLine ==
  [][\A r \in RunIds :
       (cfg.build = "channels" /\ runs[r].pc = "await" /\ runs'[r].pc = "done") =>
         LET diffs == runs[r].diffs
             lines == RenderLines(diffs)
             sent == runs'[r].sent
         IN /\ Len(lines) = Len(diffs)
            /\ \A i \in 1..Len(lines) : lines[i].entry = i
            /\ \A c \in 1..Len(cfg.channels) :
                 LET msgs == SelectSeq(sent, LAMBDA m : m.channel_id = cfg.channels[c])
                 IN /\ ConcatEntries(msgs) = [i \in 1..Len(diffs) |-> i]
                    /\ \A n \in 1..Len(msgs) :
                         msgs[n].text = header \o TextOfLines(lines, msgs[n].entries)
                                               \o footer]_vars

\* C28 witness: a run has returned after posting two messages to each of two
\* channels, its lines not fitting one chunk.
C28_Witness ==
  \E r \in RunIds :
    /\ runs[r].pc = "done"
    /\ Len(runs[r].sent) = 4
    /\ \A i \in 1..4 : runs[r].sent[i].entries # <<>>
    /\ runs[r].sent[1].entries # runs[r].sent[2].entries

\* C29: the channel-list dispatcher never posts a chunk twice and never
\* skips one: while it awaits the post of chunk ki to channel di of n
\* channels and m chunks it has made (di - 1) * m + (ki - 1) attempts, and
\* when it returns it has made n * m, attempt (c - 1) * m + k being chunk k
\* to channel c, whether the attempts resolved or were rejected.
C29_OneAttemptPerChannelAndChunk ==
  /\ [](\A r \in RunIds :
          (cfg.build = "channels" /\ runs[r].pc = "await") =>
            Len(runs[r].sent) = (runs[r].di - 1) * Len(runs[r].chunks)
                                  + (runs[r].ki - 1))
  /\ [][\A r \in RunIds :
          (cfg.build = "channels" /\ runs[r].pc = "await" /\ runs'[r].pc = "done") =>
            LET n == Len(cfg.channels)
                m == Len(runs[r].chunks)
                sent == runs'[r].sent
            IN /\ Len(sent) = n * m
               /\ \A c \in 1..n : \A k \in 1..m :
                    LET a == sent[(c - 1) * m + k]
                    IN /\ a.channel_id = cfg.channels[c]
                       /\ a.text = runs[r].chunks[k].text \o footer]_vars

\* C29 witness: a run has returned after four attempts, two chunks to each of
\* two channels, the first attempt rejected and the second, to the same
\* channel, resolved.
C29_Witness ==
  \E r \in RunIds :
    /\ runs[r].pc = "done"
    /\ Len(runs[r].sent) = 4
    /\ ~ runs[r].sent[1].ok
    /\ runs[r].sent[2].ok
    /\ runs[r].sent[2].channel_id = runs[r].sent[1].channel_id
    /\ runs[r].sent[2].text # runs[r].sent[1].text
    /\ runs[r].sent[3].channel_id # runs[r].sent[1].channel_id

\* C30: the step that commits upsertEvents leaves, for every key of the
\* batch, a row whose title, starts_at, ends_at, url, location and
\* updated_at are those of the last record of that key in the batch, a field
\* the record lacks stored as null; and in every state the content_hash of
\* every stored row is hashEvent of that row's own title, starts_at, ends_at,
\* url and location.
C30_RowsHoldLastRecordAndItsHash ==
  /\ [](\A k \in Keys :
          events[k] # NoRow => events[k].content_hash = hashEvent(events[k]))
  /\ [][\A r \in RunIds :
          (runs[r].pc = "upsert" /\ runs'[r].pc = "dispatch") =>
            \A i \in 1..Len(runs[r].batch) :
              LET e == runs[r].batch[i]
                  row == events'[KeyOf(e)]
              IN (\A j \in (i + 1)..Len(runs[r].batch) :
                    KeyOf(runs[r].batch[j]) # KeyOf(e)) =>
                   /\ row # NoRow
                   /\ row.title = e.title
                   /\ row.starts_at = e.starts_at
                   /\ row.ends_at = Coalesce(e.ends_at, Null)
                   /\ row.url = Coalesce(e.url, Null)
                   /\ row.location = Coalesce(e.location, Null)
                   /\ row.updated_at = Coalesce(e.updated_at, Null)]_vars

\* C30 witness: upsertEvents has committed a batch that holds key (A, 1)
\* twice with different locations over an earlier row of that key, and the
\* row holds the location of the second record.
C30_Witness ==
  \E r \in RunIds :
    /\ runs[r].pc = "dispatch"
    /\ Len(runs[r].batch) = 2
    /\ KeyOf(runs[r].batch[1]) = <<"A", "1">>
    /\ KeyOf(runs[r].batch[2]) = <<"A", "1">>
    /\ runs[r].batch[1].location = Absent
    /\ runs[r].batch[2].location = "Hall"
    /\ events[<<"A", "1">>].location = "Hall"
    /\ \E i \in 1..Len(runs[r].diffs) :
         /\ runs[r].diffs[i].type = "event_changed"
         /\ runs[r].diffs[i].previous.location = Null

(***************************************************************************)
(* Properties of the read-only diff, the loader and overlapping runs       *)
(***************************************************************************)
\* C31: the step in which a run carries out computeDiff, whether it returns
\* or throws, leaves the events, calendars, subscriptions, guild_settings
\* and notifications_log tables as they were.
C31_ComputeDiffReadsOnly ==
  [][\A r \in RunIds :
       (runs[r].pc = "diff" /\ runs'[r].pc # "diff") =>
         /\ events' = events
         /\ calendars' = calendars
         /\ subscriptions' = subscriptions
         /\ guild_settings' = guild_settings
         /\ notifications_log' = notifications_log]_vars

\* C31 witness: computeDiff has returned an event_changed entry for a stored
\* row, and the row still holds the previous content.
C31_Witness ==
  \E r \in RunIds :
    /\ runs[r].pc = StepAfter("diff")
    /\ \E i \in 1..Len(runs[r].diffs) :
         LET d == runs[r].diffs[i]
         IN /\ d.type = "event_changed"
            /\ events[<<d.calendar_id, d.event_id>>] # NoRow
            /\ events[<<d.calendar_id, d.event_id>>].content_hash # hashEvent(d.payload)

\* The directory snap without its blank files.
WithoutBlankFiles(snap) ==
  [snap EXCEPT !.files = SelectSeq(@, LAMBDA f : f.kind # "blank")]

\* C32: a run whose snapshot is one blank file does not fail in the load and
\* loads no record; a run on a directory that holds a blank file fails in the
\* load exactly when the load of the directory without its blank files
\* throws, and otherwise loads the records that load returns.
C32_BlankFileSkipped ==
  \A r \in RunIds :
    /\ (runs[r].snap.kind = "file" /\ runs[r].snap.files[1].kind = "blank") =>
         /\ ~(runs[r].pc = "failed" /\ runs[r].failedAt = "load")
         /\ runs[r].pc = StepAfter("load") => runs[r].batch = <<>>
    /\ (/\ runs[r].snap.kind = "dir"
        /\ \E i \in 1..Len(runs[r].snap.files) : runs[r].snap.files[i].kind = "blank") =>
         LET res == loadEventsFromJson(WithoutBlankFiles(runs[r].snap))
         IN /\ (runs[r].pc = "failed" /\ runs[r].failedAt = "load") <=> ~res.ok
            /\ runs[r].pc = StepAfter("load") => runs[r].batch = res.value

\* C32 witness: a run has loaded a directory whose first .json file is blank
\* and whose second holds one record, and its batch is that record.
C32_Witness ==
  \E r \in RunIds :
    /\ runs[r].pc = StepAfter("load")
    /\ runs[r].snap.kind = "dir"
    /\ runs[r].snap.files[1].kind = "blank"
    /\ runs[r].snap.files[2].kind = "array"
    /\ EndsWithJson(runs[r].snap.files[1].name)
    /\ Len(runs[r].batch) = 1
    /\ KeyOf(runs[r].batch[1]) = KeyOf(runs[r].snap.files[2].recs[1])

(***************************************************************************)
(* The worker without a token, on one file under each name                 *)
(***************************************************************************)
\* Records as a scraper may write them: with no calendar_name property, or
\* with one of their own.
NameRecords(c) ==
  {[Rec(c, "1", "Regional", "2025-09-01T10:00:00Z", Absent, Absent, Absent, Absent)
      EXCEPT !.calendar_name = n] : n \in {Absent, "Fort Worth"}}

NameArrays ==
  {<<a>> : a \in NameRecords("A")}
  \cup {<<a, b>> : a \in NameRecords("A"), b \in NameRecords("B")}

\* DATA_JSON_PATH is a directory of one .json file, or the file notes.txt
\* itself.
NameSnapshots ==
  {Dir(<<File(name, "array", a)>>) :
     name \in {"dfw_events.json", "global_events.json", ".json"}, a \in NameArrays}
  \cup {[kind |-> "file", files |-> <<File("notes.txt", "array", a)>>] : a \in NameArrays}

NextName ==
  \/ \E snap \in NameSnapshots : Tick(snap)
  \/ \E r \in RunIds : UpsertCalendars(r)
  \/ \E r \in RunIds : ComputeDiff(r)
  \/ \E r \in RunIds : UpsertEvents(r)
  \/ \E r \in RunIds : DispatchChannels(r)

SpecName == InitDiff /\ [][NextName]_vars

\* C33: when a run has loaded its one file, every record of its batch has
\* is_global true exactly when the file name contains 'global', and has as
\* calendar_name 'Global Events' when the name contains 'global', else 'DFW
\* Events' when it contains 'dfw', else the title-cased stem; an is_global
\* record is named 'Global Events'.
C33_FlagsDerivedFromFileName ==
  \A r \in RunIds :
    runs[r].pc = StepAfter("load") =>
      LET name == runs[r].snap.files[1].name
          expected == IF IncludesGlobal(name) THEN "Global Events"
                      ELSE IF IncludesDfw(name) THEN "DFW Events"
                      ELSE TitleCased(name)
      IN \A i \in 1..Len(runs[r].batch) :
           /\ runs[r].batch[i].is_global = IncludesGlobal(name)
           /\ runs[r].batch[i].calendar_name = expected
           /\ runs[r].batch[i].is_global => runs[r].batch[i].calendar_name = "Global Events"

\* C34: at most one run is between its load and its first await; the step
\* that commits the upsertEvents of a run finds no row for any key the run
\* classified as new and leaves a row for it; and a row of the events table is
\* never removed.  Hence of the runs whose upsertEvents commits at most one
\* classifies a key as new.
C34_NewInAtMostOneCommittedRun ==
  /\ [](Cardinality({r \in RunIds : runs[r].pc \in SyncPcs}) <= 1)
  /\ [][/\ \A r \in RunIds :
             (runs[r].pc = "upsert" /\ runs'[r].pc = "dispatch") =>
               \A i \in 1..Len(runs[r].diffs) :
                 runs[r].diffs[i].type = "new_event" =>
                   /\ events[KeyOf(runs[r].diffs[i])] = NoRow
                   /\ events'[KeyOf(runs[r].diffs[i])] # NoRow
        /\ \A k \in Keys : events[k] # NoRow => events'[k] # NoRow]_vars

\* C34 witness: a run awaits a post that announces a key as new, and an
\* overlapping run has computed its diff on a batch that holds the key
\* without classifying it as new.
C34_Witness ==
  \E r1, r2 \in RunIds :
    /\ r1 # r2
    /\ runs[r1].pc = "await"
    /\ runs[r2].pc = "upsert"
    /\ \E i \in 1..Len(runs[r1].diffs) :
         /\ runs[r1].diffs[i].type = "new_event"
         /\ \E j \in 1..Len(runs[r2].batch) :
              KeyOf(runs[r2].batch[j]) = KeyOf(runs[r1].diffs[i])
         /\ \A j \in 1..Len(runs[r2].diffs) :
              KeyOf(runs[r2].diffs[j]) = KeyOf(runs[r1].diffs[i]) =>
                runs[r2].diffs[j].type # "new_event"

\* The channels to which an awaiting run has handed a message to rest.post,
\* and those to which it still has a message to hand.
IssuedTo(r) ==
  {runs[r].sent[i].channel_id : i \in 1..Len(runs[r].sent)}
  \cup {runs[r].pending.channel_id}

UnissuedTo(r) ==
  {runs[r].dests[d].channel_id : d \in (runs[r].di + 1)..Len(runs[r].dests)}
  \cup (IF runs[r].ki < Len(runs[r].chunks)
          THEN {runs[r].dests[runs[r].di].channel_id} ELSE {})

\* C35: while the run that committed last, the latest triggered, awaits a
\* post, no run triggered before it still has a message to send to a channel
\* to which the latest has already sent one.
C35_RunsDoNotInterleaveAtChannel ==
  \A r1, r2 \in RunIds :
    (/\ cfg.build = "channels"
     /\ r1 # r2
     /\ lastCommit.run = r2
     /\ runs[r1].pc = "await"
     /\ runs[r2].pc = "await") =>
      IssuedTo(r2) \cap UnissuedTo(r1) = {}

\* C36: for every event_changed entry that computeDiff has returned,
\* formatChange of the stored and the incoming record is not the empty text.
C36_ChangedEntryHasSummary ==
  \A r \in RunIds :
    runs[r].pc \in {"upsert", "dispatch", "await"} =>
      \A i \in 1..Len(runs[r].diffs) :
        runs[r].diffs[i].type = "event_changed" =>
          TextLen(formatChange(runs[r].diffs[i].previous, runs[r].diffs[i].payload)) > 0

\* A guild has a channel: its guild_settings row exists with a channel_id.
HasChannel(g) == guild_settings[g] # NoRow /\ guild_settings[g].channel_id # Null

\* C37: with the subscription dispatcher, every row a step adds to
\* notifications_log is of a guild that has a channel and is subscribed to
\* the row's calendar when the step is taken; and a guild without a channel
\* has no row in notifications_log and no message posted or being posted to
\* it.
C37_LedgerRowsOfSubscribedGuildsWithChannel ==
  /\ [](cfg.build = "subscriptions" =>
          \A g \in Guilds :
            ~HasChannel(g) =>
              /\ \A i \in 1..Len(notifications_log) : notifications_log[i].guild_id # g
              /\ \A r \in RunIds :
                   /\ \A j \in 1..Len(runs[r].sent) : runs[r].sent[j].guild_id # g
                   /\ runs[r].pending # NoMessage => runs[r].pending.guild_id # g)
  /\ [][cfg.build = "subscriptions" =>
          \A i \in (Len(notifications_log) + 1)..Len(notifications_log') :
            /\ HasChannel(notifications_log'[i].guild_id)
            /\ <<notifications_log'[i].guild_id, notifications_log'[i].calendar_id>>
                 \in subscriptions]_vars

\* C37 witness: both guilds are subscribed to calendar A and only g1 has a
\* channel; the run has posted a message to g1, and the ledger holds a row of
\* g1 and none of g2.
C37_Witness ==
  /\ cfg.build = "subscriptions"
  /\ HasChannel("g1") /\ ~HasChannel("g2")
  /\ {<<"g1", "A">>, <<"g2", "A">>} \subseteq subscriptions
  /\ \E r \in RunIds :
       /\ runs[r].pc = "done"
       /\ Len(runs[r].sent) = 1
       /\ runs[r].sent[1].guild_id = "g1"
  /\ \E i \in 1..Len(notifications_log) :
       notifications_log[i].guild_id = "g1" /\ notifications_log[i].calendar_id = "A"
  /\ \A i \in 1..Len(notifications_log) : notifications_log[i].guild_id # "g2"

\* C38: every row of the events table is of a calendar that has a row in the
\* calendars table; and when the upsertEvents of a run commits, the calendars
\* table already holds, seen at the time of this run, the calendar of every
\* record of the batch.
C38_EventRowsHaveCalendarRow ==
  /\ [](\A k \in Keys : events[k] # NoRow => calendars[k[1]] # NoRow)
  /\ [][\A r \in RunIds :
          (runs[r].pc = "upsert" /\ events' # events) =>
            \A i \in 1..Len(runs[r].batch) :
              /\ calendars[runs[r].batch[i].calendar_id] # NoRow
              /\ calendars[runs[r].batch[i].calendar_id].last_seen_at = now
              /\ calendars' = calendars]_vars

\* C38 witness: a row of calendar A is stored with its calendar row, and a
\* later run on a batch of calendar B failed in upsertCalendarsFromEvents,
\* leaving neither a calendar row nor an event row of B.
C38_Witness ==
  /\ events[<<"A", "1">>] # NoRow
  /\ calendars["A"] # NoRow
  /\ calendars["B"] = NoRow
  /\ events[<<"B", "1">>] = NoRow
  /\ \E r \in RunIds :
       /\ runs[r].pc = "failed"
       /\ runs[r].failedAt = "calendars"
       /\ calendars["A"].last_seen_at < now

====
